---- MODULE Spec2Model ----
(***************************************************************************)
(* lifion-kinesis: the shared stream state kept in DynamoDB (state-store), *)
(* the shard lease protocol built on it and the shard polling consumer.    *)
(*                                                                         *)
(* The DynamoDB item of one (consumerGroup, streamName) pair is the        *)
(* variable doc. Every client.get/put/update/delete of the source is one   *)
(* atomic step on it; an operation of the state store that issues several  *)
(* requests is split at its awaits.                                        *)
(***************************************************************************)
EXTENDS Integers, FiniteSets, Sequences, TLC

\* ------------------------------------------------------------------------
\* Bounds of the model
\* ------------------------------------------------------------------------
MaxTime == 1          \* the clock runs over 0..MaxTime
MaxVer == 4           \* generate() calls, under Spec and SpecLease
MaxVerCheckpoint == 9 \* generate() calls, under SpecCheckpoint
MaxVerSplit == 8      \* generate() calls, under SpecSplit
MaxVerStore == 5      \* generate() calls, under SpecStore
MaxTimePoll == 2      \* the clock runs over 0..MaxTimePoll under SpecPoll
MaxStarts == 2        \* polling consumers started for the shard, one after another
MaxRecords == 2       \* records put to the shard
MaxVerSys == 7        \* generate() calls, under SpecSys
MaxVerManager == 6    \* generate() calls, under SpecManager
LeaseTerm == 1        \* leaseTermTimeout, in clock units
HeartbeatTimeout == 0 \* heartbeatFailureTimeout, in clock units
MaxTimeTakeover == 2  \* the clock runs over 0..MaxTimeTakeover under SpecTakeover
MaxVerTakeover == 7   \* generate() calls, under SpecTakeover
MaxVerBalance == 8    \* generate() calls, under SpecBalance
MaxVerRuns == 6       \* generate() calls before the last write, under SpecRuns

Consumers == {"c1", "c2"}
Epochs == {1, 2}      \* StreamCreationTimestamp before and after a re-creation
ShardIds == {"s0", "s1", "s2"}

\* null of the source, one per type
NoShard == "none"
NoOwner == "none"
NoSeq == 0
NoTime == -1
NoVersion == 0

\* The shards of the stream as listShards reports them: s0 was split into
\* s1 and s2.
ParentShardId == [s \in ShardIds |-> IF s = "s0" THEN NoShard ELSE "s0"]
StartingSequenceNumber == [s \in ShardIds |-> IF s = "s0" THEN 1 ELSE 4]
SeqNums == 1 .. 6

VARIABLES
  doc,              \* the StreamState item in DynamoDB
  verCtr,           \* number of generate() calls so far
  now,              \* Date.now()
  isStandalone,     \* per consumer, !useAutoShardAssignment
  streamCreatedOn,  \* per consumer, the constructor's streamCreatedOn
  listing,          \* shard ids the stream currently lists
  loc,              \* per consumer, the state store call in progress
  verLimit,         \* the model stops generating values after this many
  started,          \* the consumers whose StateStore.start() has returned
  ret,              \* per consumer, the outcome of its last finished call
  marked,           \* the shard slots markShardAsDepleted has succeeded for
  poll,             \* the private data of the polling consumer of one shard
  options,          \* the options its constructor was given
  shard,            \* that shard in Kinesis: records written, closed or open
  pushed,           \* what the polling consumers fetched and pushed so far
  held,             \* per consumer and shard, the lease expiration its polling
                    \* consumer of the shard holds; null without one
  manager,          \* per consumer, the state of its lease manager
  streamExists,     \* the stream service has the stream
  call              \* the call of the Kinesis client in progress

pollVars == <<poll, options, shard, pushed>>

vars ==
  <<doc, verCtr, now, isStandalone, streamCreatedOn, listing, verLimit, loc,
    started, ret, marked, poll, options, shard, pushed, held,
    manager, streamExists, call>>

\* ------------------------------------------------------------------------
\* Values
\* ------------------------------------------------------------------------
EmptyMap == [x \in {} |-> 0]

Put(m, k, v) == [x \in DOMAIN m \cup {k} |-> IF x = k THEN v ELSE m[x]]

Remove(m, ks) == [x \in DOMAIN m \ ks |-> m[x]]

NoDoc ==
  [exists |-> FALSE, streamCreatedOn |-> 0, consumers |-> EmptyMap,
   shards |-> EmptyMap, version |-> NoVersion]

\* short-uuid generate(): a value never returned before
generate(n) == n + 1

\* getStreamShards: the listing hashed by shard id; a parent that is not
\* listed any more is erased.
getStreamShards(ls) ==
  [s \in ls |->
    [parent |-> IF ParentShardId[s] \in ls THEN ParentShardId[s] ELSE NoShard,
     startingSequenceNumber |-> StartingSequenceNumber[s]]]

\* ------------------------------------------------------------------------
\* Document paths: shardsPath is "shards" or "consumers.<id>.shards"
\* ------------------------------------------------------------------------
PathOK(d, c) ==
  d.exists /\ (isStandalone[c] => c \in DOMAIN d.consumers)

ShardsAt(d, c) ==
  IF isStandalone[c] THEN d.consumers[c].shards ELSE d.shards

WithShards(d, c, m) ==
  IF isStandalone[c]
    THEN [d EXCEPT !.consumers[c].shards = m]
    ELSE [d EXCEPT !.shards = m]

HasShard(d, c, s) == PathOK(d, c) /\ s \in DOMAIN ShardsAt(d, c)

\* the map a consumer's shardsPath names: its own, or the one all the
\* consumers in auto-assignment mode share
Path(c) == IF isStandalone[c] THEN c ELSE "shards"

\* ------------------------------------------------------------------------
\* State store requests. Each operator is one DynamoDB request applied to
\* the item d on behalf of consumer c and yields the item afterwards and how
\* the request ended: "ok", "ConditionalCheckFailedException", or
\* "ValidationException" (an update whose document path does not resolve).
\* ------------------------------------------------------------------------
Ended(d, code) == [doc |-> d, code |-> code]

CCF == "ConditionalCheckFailedException"
Invalid == "ValidationException"

\* The value ensureShardStateExists writes for a missing shard.
NewShardState(parent, v) ==
  [parent |-> parent, checkpoint |-> NoSeq, depleted |-> FALSE,
   leaseExpiration |-> NoTime, leaseOwner |-> NoOwner, version |-> v]

\* The value registerConsumer writes for a missing consumer.
NewConsumer(c, heartbeat) ==
  [heartbeat |-> heartbeat, isStandalone |-> isStandalone[c], shards |-> EmptyMap]

\* initStreamState rethrowing every error of the put
SwallowedNothing(code) == FALSE

\* initStreamState: the error of the put that is caught and not rethrown
Swallowed(code) == code = CCF

\* initStreamState: put, conditional on attribute_not_exists(streamName)
putStreamState(d, c, v) ==
  IF d.exists THEN Ended(d, CCF)
  ELSE Ended([exists |-> TRUE, streamCreatedOn |-> streamCreatedOn[c],
              consumers |-> EmptyMap, shards |-> EmptyMap, version |-> v], "ok")

\* registerConsumer: SET consumers.c = :x if attribute_not_exists(consumers.c)
registerConsumer(d, c, heartbeat) ==
  IF d.exists /\ c \in DOMAIN d.consumers THEN Ended(d, CCF)
  ELSE IF ~d.exists THEN Ended(d, Invalid)
  ELSE Ended([d EXCEPT !.consumers = Put(@, c, NewConsumer(c, heartbeat))], "ok")

\* registerConsumer, second request: SET consumers.c.heartbeat = :x
refreshHeartbeat(d, c, heartbeat) ==
  IF d.exists /\ c \in DOMAIN d.consumers
    THEN Ended([d EXCEPT !.consumers[c].heartbeat = heartbeat], "ok")
    ELSE Ended(d, Invalid)

\* clearOldConsumers taking the consumers with a recent heartbeat for old
oldConsumersInverted(d, t) ==
  {id \in DOMAIN d.consumers : t - d.consumers[id].heartbeat < HeartbeatTimeout}

\* clearOldConsumers: the consumers whose heartbeat is too old at time t
oldConsumers(d, t) ==
  {id \in DOMAIN d.consumers : t - d.consumers[id].heartbeat > HeartbeatTimeout}

\* clearOldConsumers with no ConditionExpression
removeConsumersUnconditional(d, old, expected, v) ==
  IF d.exists
    THEN Ended([d EXCEPT !.consumers = Remove(@, old), !.version = v], "ok")
    ELSE Ended(d, CCF)

\* clearOldConsumers: REMOVE consumers.<old> SET version = :x if version = :y
removeConsumers(d, old, expected, v) ==
  IF d.exists /\ d.version = expected
    THEN Ended([d EXCEPT !.consumers = Remove(@, old), !.version = v], "ok")
    ELSE Ended(d, CCF)

\* ensureShardStateExists without its condition
ensureShardStateExistsOverwriting(d, c, s, parent, v) ==
  IF ~PathOK(d, c) THEN Ended(d, Invalid)
  ELSE Ended(WithShards(d, c, Put(ShardsAt(d, c), s, NewShardState(parent, v))), "ok")

\* ensureShardStateExists: SET <shards>.s = :x if attribute_not_exists(<shards>.s)
ensureShardStateExists(d, c, s, parent, v) ==
  IF HasShard(d, c, s) THEN Ended(d, CCF)
  ELSE IF ~PathOK(d, c) THEN Ended(d, Invalid)
  ELSE Ended(WithShards(d, c, Put(ShardsAt(d, c), s, NewShardState(parent, v))), "ok")

\* lockShardLease writing the version it was given back instead of a new one
lockShardLeaseSameVersion(d, c, s, expected, t, v) ==
  IF HasShard(d, c, s) /\ ShardsAt(d, c)[s].version = expected
    THEN Ended(WithShards(d, c,
                 [ShardsAt(d, c) EXCEPT ![s].leaseOwner = c,
                                        ![s].leaseExpiration = t + LeaseTerm]), "ok")
    ELSE Ended(d, CCF)

\* lockShardLease with no ConditionExpression
lockShardLeaseUnconditional(d, c, s, expected, t, v) ==
  IF HasShard(d, c, s)
    THEN Ended(WithShards(d, c,
                 [ShardsAt(d, c) EXCEPT ![s].leaseOwner = c,
                                        ![s].leaseExpiration = t + LeaseTerm,
                                        ![s].version = v]), "ok")
    ELSE Ended(d, CCF)

\* lockShardLease: SET leaseOwner, leaseExpiration, version if version = :z
lockShardLease(d, c, s, expected, t, v) ==
  IF HasShard(d, c, s) /\ ShardsAt(d, c)[s].version = expected
    THEN Ended(WithShards(d, c,
                 [ShardsAt(d, c) EXCEPT ![s].leaseOwner = c,
                                        ![s].leaseExpiration = t + LeaseTerm,
                                        ![s].version = v]), "ok")
    ELSE Ended(d, CCF)

\* releaseShardLease: SET leaseOwner = null, leaseExpiration = null, version
\* if version = :z
releaseShardLease(d, c, s, expected, v) ==
  IF HasShard(d, c, s) /\ ShardsAt(d, c)[s].version = expected
    THEN Ended(WithShards(d, c,
                 [ShardsAt(d, c) EXCEPT ![s].leaseOwner = NoOwner,
                                        ![s].leaseExpiration = NoTime,
                                        ![s].version = v]), "ok")
    ELSE Ended(d, CCF)

\* storeShardCheckpoint: SET checkpoint, version (no condition)
storeShardCheckpoint(d, c, s, checkpoint, v) ==
  IF HasShard(d, c, s)
    THEN Ended(WithShards(d, c,
                 [ShardsAt(d, c) EXCEPT ![s].checkpoint = checkpoint,
                                        ![s].version = v]), "ok")
    ELSE Ended(d, Invalid)

\* markShardAsDepleted: the children it seeds, from the parent as read in
\* the top-level shards map and the listing it was given
childrenShards(d, shardsData, parentShardId) ==
  IF d.shards[parentShardId].checkpoint # NoSeq
    THEN {s \in DOMAIN shardsData : shardsData[s].parent = parentShardId}
    ELSE {}

\* the values one request generates: the parent takes the first, the
\* children the following ones in shard id order
LessThan(a, b) ==
  \/ a = "s0" /\ b \in {"s1", "s2"}
  \/ a = "s1" /\ b = "s2"

ChildVersion(s, children, n) ==
  n + 2 + Cardinality({x \in children : LessThan(x, s)})

\* markShardAsDepleted handing the parent's checkpoint down to the children
updateDepletedParentCheckpoint(d, c, shardsData, parentShardId, children, n) ==
  IF HasShard(d, c, parentShardId) /\ \A s \in children : HasShard(d, c, s)
    THEN Ended(WithShards(d, c,
                 [s \in DOMAIN ShardsAt(d, c) |->
                    IF s = parentShardId
                      THEN [ShardsAt(d, c)[s] EXCEPT !.depleted = TRUE,
                                                     !.version = generate(n)]
                    ELSE IF s \in children
                      THEN [ShardsAt(d, c)[s] EXCEPT
                              !.checkpoint = ShardsAt(d, c)[parentShardId].checkpoint,
                              !.version = ChildVersion(s, children, n)]
                    ELSE ShardsAt(d, c)[s]]), "ok")
    ELSE Ended(d, Invalid)

\* markShardAsDepleted: one update that sets the parent's depleted and
\* version and every child's checkpoint and version (no condition)
updateDepleted(d, c, shardsData, parentShardId, children, n) ==
  IF HasShard(d, c, parentShardId) /\ \A s \in children : HasShard(d, c, s)
    THEN Ended(WithShards(d, c,
                 [s \in DOMAIN ShardsAt(d, c) |->
                    IF s = parentShardId
                      THEN [ShardsAt(d, c)[s] EXCEPT !.depleted = TRUE,
                                                     !.version = generate(n)]
                    ELSE IF s \in children
                      THEN [ShardsAt(d, c)[s] EXCEPT
                              !.checkpoint = shardsData[s].startingSequenceNumber,
                              !.version = ChildVersion(s, children, n)]
                    ELSE ShardsAt(d, c)[s]]), "ok")
    ELSE Ended(d, Invalid)

\* a listing of every recorded shard, whoever owns its lease
getOwnedShardsOfAnyOwner(d, c) == DOMAIN ShardsAt(d, c)

\* getOwnedShards
getOwnedShards(d, c) ==
  {s \in DOMAIN ShardsAt(d, c) : ShardsAt(d, c)[s].leaseOwner = c}

\* ------------------------------------------------------------------------
\* State store operations, as called by a consumer. loc[c].pc is the await
\* the call is suspended at; ret[c] keeps the value c's last call returned,
\* for the calls that return one.
\* ------------------------------------------------------------------------
IdleLoc ==
  [pc |-> "idle", shard |-> NoShard, version |-> NoVersion, heartbeat |-> NoTime,
   old |-> {}, children |-> {}, pending |-> {}, changed |-> FALSE,
   renewed |-> FALSE, releaseFailed |-> FALSE, capped |-> FALSE,
   lockFailed |-> FALSE]

NoRet == [op |-> "none", shard |-> NoShard, version |-> NoVersion,
          result |-> "none", current |-> NoVersion]

\* the call of c returns nothing, or throws
Finish(c) ==
  /\ loc' = [loc EXCEPT ![c] = IdleLoc]
  /\ UNCHANGED ret

\* the call of c returns a value to its caller
Return(c, op, s, v, result, current) ==
  /\ loc' = [loc EXCEPT ![c] = IdleLoc]
  /\ ret' = [ret EXCEPT ![c] = [op |-> op, shard |-> s, version |-> v,
                                result |-> result, current |-> current]]

\* the call of c goes on to its next await
Goto(c, l) ==
  /\ loc' = [loc EXCEPT ![c] = l]
  /\ UNCHANGED ret

\* the version of c's record of shard s, for the ghost field ret[c].current
CurrentVersion(d, c, s) ==
  IF HasShard(d, c, s) THEN ShardsAt(d, c)[s].version ELSE NoVersion

Config == <<isStandalone, streamCreatedOn, listing, verLimit>>

Fixed == UNCHANGED <<now, started, Config, marked, pollVars, held, manager, streamExists, call>>

\* c's state store has started and is in no call
Idle(c) == c \in started /\ loc[c].pc = "idle"

\* A request r was applied: the item it leaves, and the values it generated.
Apply(r, used) ==
  /\ doc' = r.doc
  /\ verCtr' = IF r.code = "ok" THEN verCtr + used ELSE verCtr

\* initStreamState: client.get
InitGet(c) ==
  /\ c \notin started
  /\ loc[c].pc = "idle"
  /\ Goto(c, [IdleLoc EXCEPT !.pc =
                IF doc.exists /\ doc.streamCreatedOn # streamCreatedOn[c]
                  THEN "init_delete" ELSE "init_put"])
  /\ UNCHANGED <<doc, verCtr>> /\ Fixed

\* initStreamState: client.delete, the creation timestamp did not match
InitDelete(c) ==
  /\ loc[c].pc = "init_delete"
  /\ doc' = NoDoc
  /\ Goto(c, [IdleLoc EXCEPT !.pc = "init_put"])
  /\ UNCHANGED verCtr /\ Fixed

\* initStreamState: client.put; a failed condition is swallowed, any other
\* error is thrown and start() fails. ret[c] keeps how the put ended.
InitPut(c) ==
  /\ loc[c].pc = "init_put"
  /\ verCtr < verLimit
  /\ LET r == putStreamState(doc, c, generate(verCtr)) IN
       /\ Apply(r, 1)
       /\ IF r.code = "ok" \/ Swallowed(r.code)
            THEN /\ Return(c, "initStreamState", NoShard, NoVersion, r.code, NoVersion)
                 /\ started' = started \cup {c}
            ELSE /\ Goto(c, [IdleLoc EXCEPT !.pc = "failed"])
                 /\ UNCHANGED started
  /\ UNCHANGED <<now, Config, marked, pollVars, held, manager, streamExists, call>>

\* registerConsumer: the first update; its failed condition leads to the
\* heartbeat update, any other error is thrown
RegisterConsumer(c) ==
  /\ Idle(c)
  /\ LET r == registerConsumer(doc, c, now) IN
       /\ Apply(r, 0)
       /\ IF r.code = CCF
            THEN Goto(c, [IdleLoc EXCEPT !.pc = "heartbeat", !.heartbeat = now])
            ELSE Finish(c)
  /\ Fixed

\* registerConsumer: the heartbeat update; its errors are swallowed
RefreshHeartbeat(c) ==
  /\ loc[c].pc = "heartbeat"
  /\ LET r == refreshHeartbeat(doc, c, loc[c].heartbeat) IN
       /\ Apply(r, 0)
       /\ Finish(c)
  /\ Fixed

\* clearOldConsumers: getStreamState and the filter on the heartbeats
ClearGet(c) ==
  /\ Idle(c)
  /\ IF ~doc.exists \/ oldConsumers(doc, now) = {}
       THEN Finish(c)
     ELSE Goto(c, [IdleLoc EXCEPT !.pc = "clear_update", !.version = doc.version,
                                  !.old = oldConsumers(doc, now)])
  /\ UNCHANGED <<doc, verCtr>> /\ Fixed

\* clearOldConsumers: the conditional update; a failed condition is swallowed
ClearUpdate(c) ==
  /\ loc[c].pc = "clear_update"
  /\ verCtr < verLimit
  /\ LET r == removeConsumers(doc, loc[c].old, loc[c].version, generate(verCtr)) IN
       /\ Apply(r, 1)
       /\ Finish(c)
  /\ Fixed

\* ensureShardStateExists(shardId, shardData)
EnsureShardStateExists(c, s) ==
  /\ Idle(c)
  /\ s \in listing
  /\ verCtr < verLimit
  /\ LET r == ensureShardStateExists(doc, c, s, getStreamShards(listing)[s].parent,
                                     generate(verCtr)) IN
       /\ Apply(r, 1)
       /\ Finish(c)
  /\ Fixed

\* getShardAndStreamState reads consumers[consumerId].shards in standalone
\* mode and shards otherwise; reading through a missing item or a missing
\* consumer throws
CanRead(d, c) == PathOK(d, c)

\* getShardAndStreamState: the first getState
GetState(c, s) ==
  /\ Idle(c)
  /\ s \in listing
  /\ IF ~CanRead(doc, c)
       THEN Finish(c)
     ELSE IF HasShard(doc, c, s)
       THEN Return(c, "getShardAndStreamState", s, ShardsAt(doc, c)[s].version,
                   "ok", NoVersion)
     ELSE Goto(c, [IdleLoc EXCEPT !.pc = "state_ensure", !.shard = s])
  /\ UNCHANGED <<doc, verCtr>> /\ Fixed

\* getShardAndStreamState: ensureShardStateExists for the missing shard
GetStateEnsure(c) ==
  /\ loc[c].pc = "state_ensure"
  /\ verCtr < verLimit
  /\ LET s == loc[c].shard
         r == ensureShardStateExists(doc, c, s, getStreamShards(listing)[s].parent,
                                     generate(verCtr)) IN
       /\ Apply(r, 1)
       /\ IF r.code = Invalid
            THEN Finish(c)
            ELSE Goto(c, [loc[c] EXCEPT !.pc = "state_get"])
  /\ Fixed

\* getShardAndStreamState: the second getState, whose result is returned
GetStateAgain(c) ==
  /\ loc[c].pc = "state_get"
  /\ LET s == loc[c].shard IN
       IF ~CanRead(doc, c)
         THEN Finish(c)
         ELSE Return(c, "getShardAndStreamState", s, CurrentVersion(doc, c, s),
                     "ok", NoVersion)
  /\ UNCHANGED <<doc, verCtr>> /\ Fixed

\* The version a caller passes to lockShardLease or releaseShardLease is
\* the one it got from getShardAndStreamState or from releaseShardLease.
Read(c, s) ==
  /\ ret[c].shard = s
  /\ \/ ret[c].op = "getShardAndStreamState" /\ ret[c].result = "ok"
     \/ ret[c].op = "releaseShardLease" /\ ret[c].result = "version"

\* lockShardLease(shardId, leaseTermTimeout, version)
LockShardLease(c, s, expected) ==
  /\ Idle(c)
  /\ Read(c, s) /\ expected = ret[c].version
  /\ verCtr < verLimit
  /\ LET r == lockShardLease(doc, c, s, expected, now, generate(verCtr)) IN
       /\ Apply(r, 1)
       /\ Return(c, "lockShardLease", s, expected,
                 IF r.code = "ok" THEN "true" ELSE "false",
                 CurrentVersion(doc, c, s))
  /\ Fixed

\* releaseShardLease(shardId, version)
ReleaseShardLease(c, s, expected) ==
  /\ Idle(c)
  /\ Read(c, s) /\ expected = ret[c].version
  /\ verCtr < verLimit
  /\ LET r == releaseShardLease(doc, c, s, expected, generate(verCtr)) IN
       /\ Apply(r, 1)
       /\ Return(c, "releaseShardLease", s,
                 IF r.code = "ok" THEN generate(verCtr) ELSE NoVersion,
                 IF r.code = "ok" THEN "version" ELSE "null",
                 CurrentVersion(doc, c, s))
  /\ Fixed

\* storeShardCheckpoint(shardId, checkpoint)
StoreShardCheckpoint(c, s, checkpoint) ==
  /\ Idle(c)
  /\ verCtr < verLimit
  /\ LET r == storeShardCheckpoint(doc, c, s, checkpoint, generate(verCtr)) IN
       /\ Apply(r, 1)
       /\ Finish(c)
  /\ Fixed

\* markShardAsDepleted reads the parent from the shards of getStreamState,
\* the top-level map in either mode, and throws on parentShard.checkpoint when
\* the item or the parent's record is missing.
parentShardMissing(d, parentShardId) ==
  ~d.exists \/ parentShardId \notin DOMAIN d.shards

\* markShardAsDepleted: getStreamState and the list of children; reading
\* the checkpoint of a parent that shards does not hold throws
MarkGet(c, parentShardId) ==
  /\ Idle(c)
  /\ parentShardId \in listing
  /\ IF parentShardMissing(doc, parentShardId)
       THEN Finish(c)
       ELSE LET children ==
                  childrenShards(doc, getStreamShards(listing), parentShardId) IN
            Goto(c, [IdleLoc EXCEPT
                       !.pc = IF children = {} THEN "mark_update" ELSE "mark_ensure",
                       !.shard = parentShardId, !.children = children,
                       !.pending = children])
  /\ UNCHANGED <<doc, verCtr>> /\ Fixed

\* markShardAsDepleted: ensureShardStateExists for one of the children
MarkEnsure(c, s) ==
  /\ loc[c].pc = "mark_ensure"
  /\ s \in loc[c].pending
  /\ verCtr < verLimit
  /\ LET r == ensureShardStateExists(doc, c, s, getStreamShards(listing)[s].parent,
                                     generate(verCtr)) IN
       /\ Apply(r, 1)
       /\ IF r.code = Invalid
            THEN Finish(c)
            ELSE Goto(c, [loc[c] EXCEPT
                            !.pending = @ \ {s},
                            !.pc = IF loc[c].pending = {s} THEN "mark_update"
                                   ELSE "mark_ensure"])
  /\ Fixed

\* markShardAsDepleted: the update of the parent and its children
MarkUpdate(c) ==
  /\ loc[c].pc = "mark_update"
  /\ verCtr + 1 + Cardinality(loc[c].children) <= verLimit
  /\ LET r == updateDepleted(doc, c, getStreamShards(listing), loc[c].shard,
                             loc[c].children, verCtr) IN
       /\ Apply(r, 1 + Cardinality(loc[c].children))
       /\ marked' = IF r.code = "ok" THEN marked \cup {<<Path(c), loc[c].shard>>}
                                     ELSE marked
       /\ Finish(c)
  /\ UNCHANGED <<now, started, Config, pollVars, held, manager, streamExists, call>>

\* Date.now() advances
Tick(limit) ==
  /\ now < limit
  /\ now' = now + 1
  /\ UNCHANGED <<doc, verCtr, Config, loc, started, ret, marked, pollVars, held,
                 manager, streamExists, call>>

\* ------------------------------------------------------------------------
\* The polling consumer of shard PollShard, run by consumer PollConsumer
\* ------------------------------------------------------------------------
PollConsumer == "c1"
PollShard == "s0"

\* null of privateProps.iterator; an iterator is the number of records of
\* the shard that precede the position it points to
NoIter == -1

\* the sequence number of the n-th record of the shard
SeqAt(n) == StartingSequenceNumber[PollShard] + n

\* the user records a fetched record holds when it is deaggregated: the
\* first record of the shard is an aggregate of two
UserRecords(sequenceNumber) == IF sequenceNumber = SeqAt(1) THEN 2 ELSE 1

\* deaggregate(Records): the user records of every fetched record, in order,
\* each with the sequence number of the record that held it
RECURSIVE deaggregate(_)
deaggregate(Records) ==
  IF Records = <<>> THEN <<>>
  ELSE [i \in 1 .. UserRecords(Head(Records)) |-> Head(Records)]
         \o deaggregate(Tail(Records))

\* the sequence numbers the service takes for this shard
ValidSequenceNumber(sequenceNumber) ==
  sequenceNumber >= StartingSequenceNumber[PollShard]

\* a checkpoint the service rejects with an InvalidArgumentException
InvalidSeq == -1

\* getShardIterator never passing the sequence number
getShardIteratorAtInitialPosition(initialPositionInStream, sequenceNumber, written) ==
  IF initialPositionInStream = "LATEST" THEN written ELSE 0

\* getShardIterator: AFTER_SEQUENCE_NUMBER with a sequence number, the
\* initial position without one or when the service rejects the number
getShardIterator(initialPositionInStream, sequenceNumber, written) ==
  IF sequenceNumber # NoSeq /\ ValidSequenceNumber(sequenceNumber)
    THEN Cardinality({n \in 1 .. written : SeqAt(n) <= sequenceNumber})
  ELSE IF initialPositionInStream = "LATEST" THEN written
  ELSE 0

\* the parameters of a client.getShardIterator call
Params(type, sequenceNumber) ==
  [ShardIteratorType |-> type, StartingSequenceNumber |-> sequenceNumber]

\* the requests getShardIterator sends before it returns an iterator: one,
\* and when the service rejects its sequence number with an
\* InvalidArgumentException those of the call without a sequence number
RECURSIVE getShardIteratorRequests(_, _)
getShardIteratorRequests(initialPositionInStream, sequenceNumber) ==
  LET params == Params(IF sequenceNumber # NoSeq THEN "AFTER_SEQUENCE_NUMBER"
                       ELSE initialPositionInStream, sequenceNumber)
  IN IF sequenceNumber # NoSeq /\ ~ValidSequenceNumber(sequenceNumber)
       THEN <<params>> \o getShardIteratorRequests(initialPositionInStream, NoSeq)
       ELSE <<params>>

\* what a run of pollForRecords keeps to itself, or its place among the
\* other fields: where it is, its local checkpoint and iterator, what it
\* fetched and requested
RunFields == {"pc", "local", "it", "records", "sequenceNumber", "requests",
              "expired", "children", "pending"}

\* no run
NoRun ==
  [pc |-> "stopped", local |-> NoSeq, it |-> NoIter, records |-> <<>>,
   sequenceNumber |-> NoSeq, requests |-> <<>>, expired |-> FALSE,
   children |-> {}, pending |-> {}]

\* the constructor's private data; pushedLast records the sequence number of
\* the last record of the last batch the instance pushed, expired that the
\* iterator was dropped for an ExpiredIteratorException and not yet replaced,
\* stoppedAt whether getRecords or another call was in flight when stop()
\* was called, stored and storedBefore the last two sequence numbers
\* pollForRecords passed to setCheckpoint, requests the getShardIterator
\* requests sent for the fetch that is under way, leaseExpired that the
\* instance was stopped by the lease check, other a second run of
\* pollForRecords on the same private data
NewPoll ==
  [pc |-> "stopped", checkpoint |-> NoSeq, iterator |-> NoIter,
   leaseExpiration |-> NoTime, seqNumToCheckpoint |-> NoSeq,
   local |-> NoSeq, it |-> NoIter, records |-> <<>>, sequenceNumber |-> NoSeq,
   children |-> {}, pending |-> {}, setCheckpoint |-> FALSE, pushedLast |-> NoSeq,
   expired |-> FALSE, stoppedAt |-> "none", stored |-> NoSeq,
   storedBefore |-> NoSeq, leaseExpired |-> FALSE, requests |-> <<>>,
   other |-> NoRun]

Seqs(records) == {records[i] : i \in DOMAIN records}

\* a lease manager after construction: its state, its pending timers,
\* whether it told the consumers manager to stop since it was started, and
\* what happened to it so far: start() was called while it ran, stop() was
\* called, a step of a tick threw
NewManager ==
  [state |-> "Idle", timers |-> 0, stopped |-> FALSE, repeated |-> FALSE,
   wasStopped |-> FALSE, errors |-> FALSE]

\* the specifications without a lease manager
NoManager ==
  /\ manager = [c \in Consumers |-> NewManager]
  /\ streamExists = TRUE

\* the specifications without a polling consumer
NoPolling ==
  /\ poll = NewPoll
  /\ options = [useAutoCheckpoints |-> TRUE, usePausedPolling |-> FALSE,
                shouldDeaggregate |-> FALSE, initialPositionInStream |-> "LATEST"]
  /\ shard = [written |-> 0, closed |-> FALSE]
  /\ pushed = [fetched |-> {}, delivered |-> {}, errored |-> FALSE, starts |-> 0]
  /\ held = [c \in Consumers |-> [s \in ShardIds |-> NoTime]]

StoreFixed == UNCHANGED <<now, Config, loc, started, ret, held, manager, streamExists, call>>

PollFixed == UNCHANGED <<options, shard>>

\* c's record of the shard, as the state store holds it
Persisted == ShardsAt(doc, PollConsumer)[PollShard]

\* stopConsumer(shardId), and stop(): the instance is dropped
Stopped == [poll EXCEPT !.pc = "stopped"]

\* the catch of pollForRecords for an error that is no ExpiredIteratorException:
\* logger.error(err); pushToStream(err)
PushError ==
  /\ poll' = [poll EXCEPT !.pc = "failed"]
  /\ pushed' = [pushed EXCEPT !.errored = TRUE]

\* pushToStream(null, propsToPush) and what follows it
Push(p, records) ==
  /\ poll' = [p EXCEPT !.pc = IF options.usePausedPolling THEN "paused" ELSE "scheduled",
                       !.records = <<>>, !.sequenceNumber = NoSeq,
                       !.setCheckpoint = @ \/ ~options.useAutoCheckpoints,
                       !.pushedLast = records[Len(records)]]
  /\ pushed' = [pushed EXCEPT !.delivered = @ \cup Seqs(records),
                              !.fetched = @ \cup Seqs(records)]

\* A consumer is created for the shard the lease of which c holds, with the
\* checkpoint and the lease expiration of the shard's record, and started.
PollStart ==
  /\ poll.pc = "stopped"
  /\ pushed.starts < MaxStarts
  /\ HasShard(doc, PollConsumer, PollShard)
  /\ Persisted.leaseOwner = PollConsumer /\ ~Persisted.depleted
  /\ poll' = [NewPoll EXCEPT !.pc = "start", !.checkpoint = Persisted.checkpoint,
                             !.leaseExpiration = Persisted.leaseExpiration]
  /\ pushed' = [pushed EXCEPT !.starts = @ + 1]
  /\ UNCHANGED <<doc, verCtr, marked>> /\ StoreFixed /\ PollFixed

\* start(): stateStore.getShardsData() resolves, or rejects and the consumer
\* is stopped
PollGetShardsData ==
  /\ poll.pc = "start"
  /\ poll' = IF PathOK(doc, PollConsumer) THEN [poll EXCEPT !.pc = "poll"] ELSE Stopped
  /\ UNCHANGED <<doc, verCtr, marked, pushed>> /\ StoreFixed /\ PollFixed

\* a poll that goes on whatever the lease expiration
leaseCheckSkipped(t) == FALSE

\* pollForRecords: Date.now() > leaseExpiration
leaseCheck(t) == t > poll.leaseExpiration

\* pollForRecords: the private data is read and the lease is checked;
\* poll.leaseExpired records that the instance was stopped by this check
PollEnter ==
  /\ poll.pc = "poll"
  /\ poll' = IF leaseCheck(now) THEN [Stopped EXCEPT !.leaseExpired = TRUE]
             ELSE [poll EXCEPT !.local = poll.checkpoint,
                               !.pc = IF poll.seqNumToCheckpoint # NoSeq
                                        THEN "stash" ELSE "iterator"]
  /\ UNCHANGED <<doc, verCtr, marked, pushed>> /\ StoreFixed /\ PollFixed

\* setCheckpoint(sequenceNumber): storeShardCheckpoint, then the private
\* checkpoint is set
setCheckpoint(sequenceNumber, then) ==
  LET r == storeShardCheckpoint(doc, PollConsumer, PollShard, sequenceNumber,
                                generate(verCtr)) IN
    /\ Apply(r, 1)
    /\ IF r.code = "ok"
         THEN /\ poll' = [then EXCEPT !.checkpoint = sequenceNumber,
                                      !.stored = sequenceNumber,
                                      !.storedBefore = poll.stored]
              /\ UNCHANGED pushed
         ELSE /\ poll' = [poll EXCEPT !.pc = "failed", !.stored = sequenceNumber,
                                      !.storedBefore = poll.stored]
              /\ pushed' = [pushed EXCEPT !.errored = TRUE]

\* pollForRecords: await setCheckpoint(seqNumToCheckpoint)
PollStash ==
  /\ poll.pc = "stash"
  /\ setCheckpoint(poll.seqNumToCheckpoint,
                   [poll EXCEPT !.seqNumToCheckpoint = NoSeq, !.pc = "iterator"])
  /\ UNCHANGED marked /\ StoreFixed /\ PollFixed

\* pollForRecords: the iterator kept from the last fetch, or a new one
PollIterator ==
  /\ poll.pc = "iterator"
  /\ poll' = [poll EXCEPT
                !.pc = "fetch", !.expired = FALSE,
                !.it = IF poll.iterator # NoIter THEN poll.iterator
                       ELSE getShardIterator(options.initialPositionInStream,
                                             poll.local, shard.written),
                !.requests = IF poll.iterator # NoIter THEN <<>>
                             ELSE getShardIteratorRequests(
                                    options.initialPositionInStream, poll.local)]
  /\ UNCHANGED <<doc, verCtr, marked, pushed>> /\ StoreFixed /\ PollFixed

\* pollForRecords: the n-th getShardIterator request rejects with an error
\* that is no InvalidArgumentException for a sequence number; getShardIterator
\* throws it and the catch of pollForRecords pushes it
PollIteratorError(n) ==
  /\ poll.pc = "iterator"
  /\ poll.iterator = NoIter
  /\ LET requests == getShardIteratorRequests(options.initialPositionInStream,
                                               poll.local) IN
       /\ n \in 1 .. Len(requests)
       /\ poll' = [poll EXCEPT !.pc = "failed", !.requests = SubSeq(requests, 1, n)]
       /\ pushed' = [pushed EXCEPT !.errored = TRUE]
  /\ UNCHANGED <<doc, verCtr, marked>> /\ StoreFixed /\ PollFixed

\* pollForRecords: client.getRecords answers with k records, and with no
\* NextShardIterator when the shard is closed and read to its end; the
\* records are deaggregated and decoded, and pushed unless their checkpoint
\* is stored first
PollGetRecords(k, last) ==
  /\ poll.pc = "fetch"
  /\ k <= shard.written - poll.it
  /\ last => shard.closed /\ poll.it + k = shard.written
  /\ (k = 0 /\ shard.closed /\ poll.it = shard.written) => last
  /\ LET Records == [i \in 1 .. k |-> SeqAt(poll.it + i)]
         recordsCount == k
         records == IF options.shouldDeaggregate THEN deaggregate(Records) ELSE Records
         p == [poll EXCEPT !.iterator = IF last THEN NoIter ELSE poll.it + k,
                           !.it = NoIter, !.requests = <<>>]
     IN IF recordsCount = 0
          THEN /\ poll' = [p EXCEPT !.pc = IF last THEN "depleted" ELSE "scheduled"]
               /\ UNCHANGED pushed
        ELSE IF options.useAutoCheckpoints /\ ~options.usePausedPolling
          THEN /\ poll' = [p EXCEPT !.pc = "checkpoint", !.records = records,
                                    !.sequenceNumber = records[recordsCount]]
               /\ pushed' = [pushed EXCEPT !.fetched = @ \cup Seqs(records)]
        ELSE Push([p EXCEPT !.seqNumToCheckpoint =
                     IF options.useAutoCheckpoints THEN records[recordsCount] ELSE @],
                  records)
  /\ UNCHANGED <<doc, verCtr, marked>> /\ StoreFixed /\ PollFixed

\* pollForRecords: the iterator kept from an earlier fetch has expired; the
\* iterator is dropped and pollForRecords is called again
PollExpiredIterator ==
  /\ poll.pc = "fetch"
  /\ poll.iterator # NoIter
  /\ poll' = [poll EXCEPT !.iterator = NoIter, !.it = NoIter, !.pc = "poll",
                           !.expired = TRUE, !.requests = <<>>]
  /\ UNCHANGED <<doc, verCtr, marked, pushed>> /\ StoreFixed /\ PollFixed

\* pollForRecords: client.getRecords rejects with another error
PollGetRecordsError ==
  /\ poll.pc = "fetch"
  /\ PushError
  /\ UNCHANGED <<doc, verCtr, marked>> /\ StoreFixed /\ PollFixed

\* pollForRecords: await setCheckpoint(sequenceNumber), before the push
PollCheckpoint ==
  /\ poll.pc = "checkpoint"
  /\ setCheckpoint(poll.sequenceNumber, [poll EXCEPT !.pc = "push"])
  /\ UNCHANGED marked /\ StoreFixed /\ PollFixed

\* pollForRecords: pushToStream(null, propsToPush) and the next timeout
PollPush ==
  /\ poll.pc = "push"
  /\ Push(poll, poll.records)
  /\ UNCHANGED <<doc, verCtr, marked>> /\ StoreFixed /\ PollFixed

\* the timeout set by pollForRecords fires
PollTimeout ==
  /\ poll.pc = "scheduled"
  /\ poll' = [poll EXCEPT !.pc = "poll"]
  /\ UNCHANGED <<doc, verCtr, marked, pushed>> /\ StoreFixed /\ PollFixed

\* the user calls continuePolling()
ContinuePolling ==
  /\ poll.pc = "paused"
  /\ poll' = [poll EXCEPT !.pc = "poll"]
  /\ UNCHANGED <<doc, verCtr, marked, pushed>> /\ StoreFixed /\ PollFixed

\* the user calls continuePolling() again, for a batch it has called it for:
\* continuePolling is () => pollForRecords(this), whatever the instance does
ContinuePollingAgain ==
  /\ options.usePausedPolling
  /\ poll.pushedLast # NoSeq
  /\ poll.pc \notin {"stopped", "start", "paused"}
  /\ poll.other.pc = "stopped"
  /\ poll' = [poll EXCEPT !.other = [NoRun EXCEPT !.pc = "poll"]]
  /\ UNCHANGED <<doc, verCtr, marked, pushed>> /\ StoreFixed /\ PollFixed

\* the event loop goes on with the other run of pollForRecords
PollSwitch ==
  /\ poll.other.pc # "stopped"
  /\ poll' = [f \in DOMAIN poll |->
                IF f \in RunFields THEN poll.other[f]
                ELSE IF f = "other" THEN [g \in RunFields |-> poll[g]]
                ELSE poll[f]]
  /\ UNCHANGED <<doc, verCtr, marked, pushed>> /\ StoreFixed /\ PollFixed

\* the user calls the setCheckpoint it was handed with a record it got
UserSetCheckpoint(sequenceNumber) ==
  /\ poll.setCheckpoint /\ poll.pc \in {"scheduled", "paused"}
  /\ sequenceNumber \in pushed.delivered
  /\ sequenceNumber > poll.checkpoint
  /\ LET r == storeShardCheckpoint(doc, PollConsumer, PollShard, sequenceNumber,
                                   generate(verCtr)) IN
       /\ Apply(r, 1)
       /\ poll' = IF r.code = "ok" THEN [poll EXCEPT !.checkpoint = sequenceNumber]
                                   ELSE poll
  /\ UNCHANGED <<marked, pushed>> /\ StoreFixed /\ PollFixed

\* stop(): the timeout is cleared and the instance dropped
PollStop ==
  /\ poll.pc \in {"scheduled", "paused", "failed"}
  /\ poll' = Stopped
  /\ UNCHANGED <<doc, verCtr, marked, pushed>> /\ StoreFixed /\ PollFixed

\* stop() while start() or pollForRecords is waiting for a call to return:
\* there is no timeout to clear, and what waits goes on
PollStopInFlight ==
  /\ poll.pc \notin {"stopped", "scheduled", "paused", "failed"}
  /\ poll.stoppedAt = "none"
  /\ poll' = [poll EXCEPT !.stoppedAt = IF poll.pc = "fetch" THEN "fetch" ELSE "other"]
  /\ UNCHANGED <<doc, verCtr, marked, pushed>> /\ StoreFixed /\ PollFixed

\* updateLeaseExpiration(leaseExpiration), after the lease was renewed
UpdateLeaseExpiration ==
  /\ poll.pc \notin {"stopped", "failed"}
  /\ HasShard(doc, PollConsumer, PollShard)
  /\ Persisted.leaseOwner = PollConsumer
  /\ now + LeaseTerm > poll.leaseExpiration
  /\ LET r == lockShardLease(doc, PollConsumer, PollShard, Persisted.version, now,
                             generate(verCtr)) IN
       /\ Apply(r, 1)
       /\ poll' = [poll EXCEPT !.leaseExpiration = now + LeaseTerm]
  /\ UNCHANGED <<marked, pushed>> /\ StoreFixed /\ PollFixed

\* the shard was read to its end: getStreamShards, then the first request
\* of markShardAsDepleted
PollMarkGet ==
  /\ poll.pc = "depleted"
  /\ IF ~doc.exists \/ PollShard \notin DOMAIN doc.shards
       THEN PushError
       ELSE LET children == childrenShards(doc, getStreamShards(listing), PollShard) IN
            /\ poll' = [poll EXCEPT
                          !.pc = IF children = {} THEN "mark_update" ELSE "mark_ensure",
                          !.children = children, !.pending = children]
            /\ UNCHANGED pushed
  /\ UNCHANGED <<doc, verCtr, marked>> /\ StoreFixed /\ PollFixed

\* markShardAsDepleted: ensureShardStateExists for one of the children
PollMarkEnsure(s) ==
  /\ poll.pc = "mark_ensure"
  /\ s \in poll.pending
  /\ LET r == ensureShardStateExists(doc, PollConsumer, s,
                                     getStreamShards(listing)[s].parent,
                                     generate(verCtr)) IN
       /\ Apply(r, 1)
       /\ IF r.code = Invalid
            THEN PushError
            ELSE /\ poll' = [poll EXCEPT
                               !.pending = @ \ {s},
                               !.pc = IF poll.pending = {s} THEN "mark_update"
                                      ELSE "mark_ensure"]
                 /\ UNCHANGED pushed
  /\ UNCHANGED marked /\ StoreFixed /\ PollFixed

\* markShardAsDepleted: the update; then stopConsumer(shardId)
PollMarkUpdate ==
  /\ poll.pc = "mark_update"
  /\ LET r == updateDepleted(doc, PollConsumer, getStreamShards(listing), PollShard,
                             poll.children, verCtr) IN
       /\ Apply(r, 1 + Cardinality(poll.children))
       /\ IF r.code = "ok"
            THEN /\ marked' = marked \cup {<<Path(PollConsumer), PollShard>>}
                 /\ poll' = [Stopped EXCEPT !.children = {}, !.pending = {}]
                 /\ UNCHANGED pushed
            ELSE /\ PushError
                 /\ UNCHANGED marked
  /\ StoreFixed /\ PollFixed

\* a producer puts a record to the open shard
PutRecord ==
  /\ ~shard.closed
  /\ shard.written < MaxRecords
  /\ shard' = [shard EXCEPT !.written = @ + 1]
  /\ UNCHANGED <<doc, verCtr, marked, poll, options, pushed>> /\ StoreFixed

\* ------------------------------------------------------------------------
\* The lease manager and the consumers manager of each consumer: the
\* reconciliation algorithm and its decision table, as the specification
\* and the tests of the lease manager (lease-manager.test.js) give them.
\* ------------------------------------------------------------------------
LmFixed == UNCHANGED <<now, started, Config, marked, pollVars, ret, streamExists, call>>

\* the positions of a reconciliation tick
LmPcs ==
  {"lm_resolve", "lm_eval", "lm_release", "lm_lock", "lm_reconcile", "lm_error",
   "lm_schedule"}

\* the manager was not stopped since the tick began
Running(c) == manager[c].state = "Running"

\* the first shard in shard id order
Lowest(S) == CHOOSE s \in S : \A x \in S : x = s \/ LessThan(s, x)

\* a manager that applies no cap
maxActiveUncapped(d) == Cardinality(ShardIds) + 1

\* maxActive = ceil(|shards| / |activeConsumers|); no cap without active
\* consumers
activeConsumers(d) == {id \in DOMAIN d.consumers : ~d.consumers[id].isStandalone}

maxActive(d) ==
  IF activeConsumers(d) = {} THEN Cardinality(ShardIds) + 1
  ELSE (Cardinality(listing) + Cardinality(activeConsumers(d)) - 1)
         \div Cardinality(activeConsumers(d))

\* the leases of shards not depleted that c owns
activeLeases(d, c) ==
  {s \in getOwnedShards(d, c) : ~ShardsAt(d, c)[s].depleted}

\* the parent-depletion check reads the top-level shards map in both modes
parentNotDepleted(d, shardState) ==
  /\ shardState.parent # NoShard
  /\ shardState.parent \in DOMAIN d.shards
  /\ ~d.shards[shardState.parent].depleted

\* a renewal that waits for less than the whole lease term to remain
renewDueWholeTerm(shardState, t) == ~(shardState.leaseExpiration - t > LeaseTerm)

\* renewThreshold = leaseTermMs / 2: the lease of this consumer is renewed
\* once no more than half of the lease term remains
renewDue(shardState, t) == ~(2 * (shardState.leaseExpiration - t) > LeaseTerm)

\* a lease taken for expired whatever its expiration
theLeaseExpiredAlways(shardState, t) == TRUE

\* the lease expiration of the record has passed
theLeaseExpired(shardState, t) == t > shardState.leaseExpiration

\* the owner of the lease has no record in consumers
ownerIsGone(d, shardState) == shardState.leaseOwner \notin DOMAIN d.consumers

\* the decision table, first matching row
decide(d, c, s, t) ==
  LET shardState == ShardsAt(d, c)[s]
      leaseOwner == shardState.leaseOwner IN
    IF shardState.depleted THEN "skip"
    ELSE IF leaseOwner = c /\ ~renewDue(shardState, t) THEN "skip"
    ELSE IF leaseOwner = c THEN "renew"
    ELSE IF leaseOwner # NoOwner /\ theLeaseExpired(shardState, t)
            /\ ~ownerIsGone(d, shardState)
      THEN "steal"
    ELSE IF leaseOwner # NoOwner /\ ownerIsGone(d, shardState) THEN "reclaim"
    ELSE IF leaseOwner # NoOwner THEN "skip"
    ELSE IF parentNotDepleted(d, shardState) THEN "skip"
    ELSE IF ~isStandalone[c] /\ Cardinality(activeLeases(d, c)) >= maxActive(d)
      THEN "max"
    ELSE "acquire"

\* c's pending lockShardLease is on a record that c owns: a renewal
ownLock(c) ==
  /\ loc[c].pc = "lm_lock"
  /\ PathOK(doc, c) /\ HasShard(doc, c, loc[c].shard)
  /\ ShardsAt(doc, c)[loc[c].shard].leaseOwner = c

\* the tick goes on to the next shard, or ends: the consumers manager is
\* told to reconcile if a lease changed; loc[c].renewed records that a
\* renewal of this tick succeeded, loc[c].releaseFailed that a release of
\* this tick failed, loc[c].capped that a shard was skipped for the cap,
\* loc[c].lockFailed that a lockShardLease of this tick did not take the lease
LmNext(c, changed) ==
  LET rest == loc[c].pending \ {Lowest(loc[c].pending)}
      ch == loc[c].changed \/ changed
      rn == loc[c].renewed \/ (changed /\ ownLock(c))
      rf == loc[c].releaseFailed \/ (changed /\ loc[c].pc = "lm_release")
      cp == loc[c].capped \/ (changed /\ loc[c].pc = "lm_eval")
      lf == loc[c].lockFailed \/ (~changed /\ loc[c].pc = "lm_lock") IN
    loc' = [loc EXCEPT ![c] =
              IF rest # {}
                THEN [IdleLoc EXCEPT !.pc = "lm_eval", !.pending = rest, !.changed = ch,
                                     !.renewed = rn, !.releaseFailed = rf,
                                     !.capped = cp, !.lockFailed = lf]
              ELSE IF ch THEN [IdleLoc EXCEPT !.pc = "lm_reconcile", !.renewed = rn,
                                              !.releaseFailed = rf, !.capped = cp,
                                              !.lockFailed = lf]
              ELSE [IdleLoc EXCEPT !.pc = "lm_schedule", !.lockFailed = lf]]

\* start() on a running manager
startRepeated(c) ==
  /\ manager' = [manager EXCEPT ![c].repeated = TRUE]
  /\ UNCHANGED loc

\* start() on an idle manager: the first tick runs
startIdle(c) ==
  /\ manager' = [manager EXCEPT ![c].state = "Running", ![c].stopped = FALSE]
  /\ loc' = [loc EXCEPT ![c] = [IdleLoc EXCEPT !.pc = "lm_resolve"]]

\* start() that runs a tick whatever the state of the manager
ManagerStartUnguarded(c) ==
  /\ Idle(c)
  /\ startIdle(c)
  /\ UNCHANGED <<doc, verCtr, held>> /\ LmFixed

\* LeaseManager.start(): a no-op on a running manager
ManagerStart(c) ==
  /\ IF Running(c) THEN startRepeated(c) ELSE Idle(c) /\ startIdle(c)
  /\ UNCHANGED <<doc, verCtr, held>> /\ LmFixed

\* stop() that leaves the pending timer
ManagerStopKeepingTimer(c) ==
  /\ Running(c)
  /\ manager' = [manager EXCEPT ![c].state = "Idle", ![c].wasStopped = TRUE]
  /\ UNCHANGED <<doc, verCtr, held, loc>> /\ LmFixed

\* LeaseManager.stop(): the pending timer is cleared
ManagerStop(c) ==
  /\ Running(c)
  /\ manager' = [manager EXCEPT ![c].state = "Idle", ![c].timers = 0,
                                ![c].wasStopped = TRUE]
  /\ UNCHANGED <<doc, verCtr, held, loc>> /\ LmFixed

\* a tick that was in flight when the manager was stopped ends with the call
\* it was waiting for
LmDiscard(c) ==
  /\ loc[c].pc \in LmPcs
  /\ ~Running(c)
  /\ loc' = [loc EXCEPT ![c] = IdleLoc]
  /\ UNCHANGED <<doc, verCtr, held, manager>> /\ LmFixed

\* the stream is deleted
DeleteStream ==
  /\ streamExists
  /\ streamExists' = FALSE
  /\ UNCHANGED <<doc, verCtr, Config, loc, started, ret, marked, pollVars, held,
                 manager, now, call>>

\* the timer of the lease manager fires
LmStart(c) ==
  /\ Idle(c)
  /\ Running(c)
  /\ manager[c].timers > 0
  /\ manager' = [manager EXCEPT ![c].timers = @ - 1]
  /\ loc' = [loc EXCEPT ![c] = [IdleLoc EXCEPT !.pc = "lm_resolve"]]
  /\ UNCHANGED <<doc, verCtr, held>> /\ LmFixed

\* a tick that goes on to the next timer when the stream is gone
streamGoneIgnored(c) ==
  /\ loc' = [loc EXCEPT ![c].pc = "lm_schedule"]
  /\ UNCHANGED <<manager, held>>

\* the tick with a stream that is gone: consumersManager.stop(), which stops
\* every polling consumer, and the manager stops
streamGone(c) ==
  /\ manager' = [manager EXCEPT ![c].state = "Idle", ![c].timers = 0,
                                ![c].stopped = TRUE]
  /\ held' = [held EXCEPT ![c] = [s \in ShardIds |-> NoTime]]
  /\ loc' = [loc EXCEPT ![c] = IdleLoc]

\* an error of the tick that ends the loop
tickErrorUncaught(c) ==
  /\ loc' = [loc EXCEPT ![c] = IdleLoc]
  /\ manager' = [manager EXCEPT ![c].errors = TRUE]

\* the catch of the tick: the error is logged and the next tick scheduled
tickError(c) ==
  /\ loc' = [loc EXCEPT ![c].pc = "lm_error"]
  /\ manager' = [manager EXCEPT ![c].errors = TRUE]

\* the tick resolves the stream and lists its shards; an error of either is
\* logged and ends the tick
LmResolve(c, failed) ==
  /\ loc[c].pc = "lm_resolve"
  /\ Running(c)
  /\ IF failed
       THEN /\ tickError(c)
            /\ UNCHANGED held
     ELSE IF ~streamExists
       THEN streamGone(c)
     ELSE /\ loc' = [loc EXCEPT ![c] =
                       IF listing = {} THEN [IdleLoc EXCEPT !.pc = "lm_schedule"]
                       ELSE [IdleLoc EXCEPT !.pc = "lm_eval", !.pending = listing]]
          /\ UNCHANGED <<manager, held>>
  /\ UNCHANGED <<doc, verCtr>> /\ LmFixed

\* the end of the tick: the next one is scheduled
LmSchedule(c) ==
  /\ loc[c].pc \in {"lm_schedule", "lm_error"}
  /\ Running(c)
  /\ manager' = [manager EXCEPT ![c].timers = @ + 1]
  /\ loc' = [loc EXCEPT ![c] = IdleLoc]
  /\ UNCHANGED <<doc, verCtr, held>> /\ LmFixed

\* getShardAndStreamState for the next shard, which records a missing
\* shard first, and the decision on what it returns; an error is logged and
\* the tick goes on
LmEvaluate(c) ==
  /\ loc[c].pc = "lm_eval"
  /\ Running(c)
  /\ LET s == Lowest(loc[c].pending) IN
       IF ~PathOK(doc, c)
         THEN LmNext(c, FALSE) /\ UNCHANGED <<doc, verCtr>>
       ELSE IF ~HasShard(doc, c, s)
         THEN /\ verCtr < verLimit
              /\ Apply(ensureShardStateExists(doc, c, s, getStreamShards(listing)[s].parent,
                                              generate(verCtr)), 1)
              /\ UNCHANGED loc
       ELSE LET decision == decide(doc, c, s, now) IN
              /\ UNCHANGED <<doc, verCtr>>
              /\ IF decision \in {"renew", "acquire"}
                   THEN loc' = [loc EXCEPT ![c].pc = "lm_lock", ![c].shard = s,
                                           ![c].version = ShardsAt(doc, c)[s].version]
                 ELSE IF decision \in {"steal", "reclaim"}
                   THEN loc' = [loc EXCEPT ![c].pc = "lm_release", ![c].shard = s,
                                           ![c].version = ShardsAt(doc, c)[s].version]
                 ELSE LmNext(c, decision = "max")
  /\ UNCHANGED <<held, manager>> /\ LmFixed

\* a state store call made for a shard throws: the error is logged and the
\* tick goes on with the next shard
LmShardError(c) ==
  /\ loc[c].pc \in {"lm_eval", "lm_release", "lm_lock"}
  /\ Running(c)
  /\ LmNext(c, FALSE)
  /\ manager' = [manager EXCEPT ![c].errors = TRUE]
  /\ UNCHANGED <<doc, verCtr, held>> /\ LmFixed

\* a release whose failure is not looked at: the lock is attempted anyway
LmReleaseLockingAnyway(c) ==
  /\ loc[c].pc = "lm_release"
  /\ Running(c)
  /\ verCtr < verLimit
  /\ LET r == releaseShardLease(doc, c, loc[c].shard, loc[c].version, generate(verCtr)) IN
       /\ Apply(r, 1)
       /\ loc' = [loc EXCEPT ![c].pc = "lm_lock",
                             ![c].version = IF r.code = "ok" THEN generate(verCtr) ELSE @,
                             ![c].changed = TRUE]
  /\ UNCHANGED <<held, manager>> /\ LmFixed

\* steal and reclaim: releaseShardLease; the lock is attempted with the
\* version it returns
LmRelease(c) ==
  /\ loc[c].pc = "lm_release"
  /\ Running(c)
  /\ verCtr < verLimit
  /\ LET r == releaseShardLease(doc, c, loc[c].shard, loc[c].version, generate(verCtr)) IN
       /\ Apply(r, 1)
       /\ IF r.code = "ok"
            THEN loc' = [loc EXCEPT ![c].pc = "lm_lock", ![c].version = generate(verCtr),
                                    ![c].changed = TRUE]
            ELSE LmNext(c, TRUE)
  /\ UNCHANGED <<held, manager>> /\ LmFixed

\* renew, acquire, and the second half of steal and reclaim: lockShardLease
LmLock(c) ==
  /\ loc[c].pc = "lm_lock"
  /\ Running(c)
  /\ verCtr < verLimit
  /\ LET r == lockShardLease(doc, c, loc[c].shard, loc[c].version, now, generate(verCtr)) IN
       /\ Apply(r, 1)
       /\ LmNext(c, r.code = "ok")
  /\ UNCHANGED <<held, manager>> /\ LmFixed

\* consumersManager.reconcile(): a polling consumer runs for every owned
\* shard, with the lease expiration of the shard's record, and for no other
LmReconcile(c) ==
  /\ loc[c].pc = "lm_reconcile"
  /\ Running(c)
  /\ loc' = [loc EXCEPT ![c].pc = "lm_schedule"]
  /\ held' = IF ~PathOK(doc, c) THEN held
             ELSE [held EXCEPT ![c] =
                     [s \in ShardIds |->
                        IF s \in getOwnedShards(doc, c)
                          THEN ShardsAt(doc, c)[s].leaseExpiration ELSE NoTime]]
  /\ UNCHANGED <<doc, verCtr, manager>> /\ LmFixed

\* pollForRecords of c's polling consumer of s: the lease expired, the
\* consumer is stopped
PollLeaseExpired(c, s) ==
  /\ held[c][s] # NoTime
  /\ now > held[c][s]
  /\ held' = [held EXCEPT ![c][s] = NoTime]
  /\ UNCHANGED <<doc, verCtr, loc, manager>> /\ LmFixed

\* pollForRecords of c's polling consumer of s read the shard to its end
PollDepleted(c, s) ==
  /\ held[c][s] # NoTime
  /\ MarkGet(c, s)

\* pollForRecords: stopConsumer(shardId) once the shard is marked depleted
PollDepletedStop(c, s) ==
  /\ held[c][s] # NoTime
  /\ loc[c].pc = "idle"
  /\ <<Path(c), s>> \in marked
  /\ held' = [held EXCEPT ![c][s] = NoTime]
  /\ UNCHANGED <<doc, verCtr, loc, manager>> /\ LmFixed

\* ------------------------------------------------------------------------
\* The Kinesis client: the calls it retries
\* ------------------------------------------------------------------------
\* the methods that go through retriableSdkCall, and the two put methods
RetriableMethods ==
  {"describeStream", "getRecords", "getShardIterator", "listShards",
   "listStreamConsumers", "listTagsForStream", "waitFor"}
PutMethods == {"putRecord", "putRecords"}

\* RETRIABLE_PUT_ERRORS
RETRIABLE_PUT_ERRORS ==
  {"EADDRINUSE", "ECONNREFUSED", "ECONNRESET", "EPIPE", "ESOCKETTIMEDOUT",
   "ETIMEDOUT", "NetworkingError", "ProvisionedThroughputExceededException",
   "TimeoutError"}

\* the retry-eligible error codes of the stream-service contract
RetryEligible ==
  {"ProvisionedThroughputExceededException", "EADDRINUSE", "ECONNREFUSED",
   "ECONNRESET", "EPIPE", "ESOCKETTIMEDOUT", "ETIMEDOUT", "NetworkingError",
   "TimeoutError"}

\* error codes that are not retry-eligible
OtherCodes ==
  {"InvalidArgumentException", "ResourceNotFoundException", "ResourceInUseException",
   "MissingRequiredParameter"}

\* the error codes the SDK rejects a request with; what it throws before a
\* request is made is never one of the service's or the network's errors
RejectCodes == RetryEligible \cup OtherCodes
ThrowCodes == OtherCodes

NoCode == "none"

\* shouldBailRetry(err) of utils: the error is not retry-eligible
shouldBailRetry(code) == code \notin RetryEligible

\* the bound of the model on the attempts of one call, and on the records of
\* one putRecords
MaxAttempts == 3
MaxPut == 3

\* no call in progress; accepted is what the service took of the records of
\* a putRecords, sent the records of the last request
NoCall ==
  call = [pc |-> "idle", method |-> "none", attempts |-> 0, err |-> NoCode,
          input |-> 0, records |-> <<>>, results |-> <<>>, accepted |-> {},
          sent |-> <<>>]

ClientFixed ==
  UNCHANGED <<doc, verCtr, now, Config, loc, started, ret, marked, pollVars, held,
              manager, streamExists>>

\* the entries of s at the positions P, in order
RECURSIVE Pick(_, _, _)
Pick(s, P, i) ==
  IF i > Len(s) THEN <<>>
  ELSE (IF i \in P THEN <<s[i]>> ELSE <<>>) \o Pick(s, P, i + 1)

\* a retried method is called; putRecords with n records
ClientCall(methodName, n) ==
  /\ call.pc \in {"idle", "resolved", "rejected"}
  /\ (methodName # "putRecords") => n = 0
  /\ call' = [pc |-> "sdk", method |-> methodName, attempts |-> 0, err |-> NoCode,
              input |-> n, records |-> [i \in 1 .. n |-> i], results |-> <<>>,
              accepted |-> {}, sent |-> <<>>]
  /\ ClientFixed

\* retry of async-retry: the function is run, now and after each timeout
\* (forever: true)
RetryAttempt ==
  /\ call.pc = "sdk"
  /\ call' = [call EXCEPT !.pc = "request", !.attempts = @ + 1, !.sent = call.records]
  /\ ClientFixed

\* whether the error of a rejected request is thrown to async-retry, which
\* retries, or handed to bail
retried(methodName, code) ==
  IF methodName \in PutMethods THEN code \in RETRIABLE_PUT_ERRORS
  ELSE ~shouldBailRetry(code)

\* a rejected request that async-retry never retries
rejectedBailing(c, code) ==
  [c EXCEPT !.err = code, !.pc = "rejected"]

\* client[methodName](...args).promise() rejects
rejected(c, code) ==
  [c EXCEPT !.err = code,
            !.pc = IF retried(c.method, code) THEN "wait" ELSE "rejected"]

SdkRejects(code) ==
  /\ call.pc = "request"
  /\ call' = rejected(call, code)
  /\ ClientFixed

\* client[methodName](...args) throws: bail(error)
SdkThrows(code) ==
  /\ call.pc = "request"
  /\ call' = [call EXCEPT !.err = code, !.pc = "rejected"]
  /\ ClientFixed

\* the request of a method other than putRecords resolves
SdkResolves ==
  /\ call.pc = "request"
  /\ call.method # "putRecords"
  /\ call' = [call EXCEPT !.err = NoCode, !.pc = "resolved"]
  /\ ClientFixed

\* putRecords going on with the records of the request after a partial
\* failure
putRecordsResendingAll(c, failed) ==
  LET results == c.results \o Pick(c.records, (1 .. Len(c.records)) \ failed, 1) IN
    IF failed = {}
      THEN [c EXCEPT !.results = results, !.err = NoCode, !.pc = "resolved"]
      ELSE [c EXCEPT !.results = results,
                     !.err = "ProvisionedThroughputExceededException",
                     !.pc = IF "ProvisionedThroughputExceededException"
                                 \in RETRIABLE_PUT_ERRORS
                              THEN "wait" ELSE "rejected"]

\* putRecords: the payload of a request that resolved, whose entries at the
\* positions failed carry an ErrorCode
putRecords(c, failed) ==
  LET nextRecords == Pick(c.records, failed, 1)
      results == c.results \o Pick(c.records, (1 .. Len(c.records)) \ failed, 1) IN
    IF failed = {}
      THEN [c EXCEPT !.results = results, !.err = NoCode, !.pc = "resolved"]
      ELSE [c EXCEPT !.results = results, !.records = nextRecords,
                     !.err = "ProvisionedThroughputExceededException",
                     !.pc = IF "ProvisionedThroughputExceededException"
                                 \in RETRIABLE_PUT_ERRORS
                              THEN "wait" ELSE "rejected"]

\* the request of putRecords resolves: the service took the records but
\* those at the positions failed
SdkPutRecords(failed) ==
  /\ call.pc = "request"
  /\ call.method = "putRecords"
  /\ failed \subseteq 1 .. Len(call.records)
  /\ call' = [putRecords(call, failed) EXCEPT
                !.accepted = @ \cup {call.records[i] :
                                       i \in (1 .. Len(call.records)) \ failed}]
  /\ ClientFixed

\* the timeout of async-retry fires
RetryTimeout ==
  /\ call.pc = "wait"
  /\ call.attempts < MaxAttempts
  /\ call' = [call EXCEPT !.pc = "sdk"]
  /\ ClientFixed

\* ------------------------------------------------------------------------
\* Specifications
\* ------------------------------------------------------------------------
\* the sequence numbers of the records of shard s
ShardSeqNums(s) ==
  {n \in SeqNums : n > StartingSequenceNumber[s] /\ n < StartingSequenceNumber[s] + 3}

InitOps(c) ==
  \/ InitGet(c)
  \/ InitDelete(c)
  \/ InitPut(c)

ConsumerOps(c) ==
  \/ RegisterConsumer(c)
  \/ RefreshHeartbeat(c)
  \/ ClearGet(c)
  \/ ClearUpdate(c)

LeaseOps(c) ==
  \/ GetStateEnsure(c)
  \/ GetStateAgain(c)
  \/ \E s \in listing :
       \/ GetState(c, s)
       \/ \E v \in 1 .. verCtr :
            \/ LockShardLease(c, s, v)
            \/ ReleaseShardLease(c, s, v)

CheckpointOps(c) ==
  \/ MarkUpdate(c)
  \/ \E s \in listing :
       \/ EnsureShardStateExists(c, s)
       \/ MarkGet(c, s)
       \/ MarkEnsure(c, s)
       \/ \E n \in ShardSeqNums(s) : StoreShardCheckpoint(c, s, n)

\* Before any StateStore.start(): there is no item yet.
Init ==
  /\ doc = NoDoc
  /\ verCtr = 0
  /\ now = 0
  /\ isStandalone \in {f \in [Consumers -> BOOLEAN] : ~f["c1"]}
  /\ streamCreatedOn \in {f \in [Consumers -> Epochs] : f["c1"] = 1}
  /\ listing = ShardIds
  /\ verLimit = MaxVer
  /\ loc = [c \in Consumers |-> IdleLoc]
  /\ started = {}
  /\ ret = [c \in Consumers |-> NoRet]
  /\ marked = {}
  /\ NoPolling
  /\ NoManager
  /\ NoCall

\* Every operation of the state store, called by any consumer at any time.
Next ==
  \/ Tick(MaxTime)
  \/ \E c \in Consumers :
       \/ InitOps(c)
       \/ ConsumerOps(c)
       \/ LeaseOps(c)
       \/ CheckpointOps(c)

Spec == Init /\ [][Next]_vars

\* StateStore.start() and the consumers map, from before any item exists.
NextBootstrap ==
  \/ Tick(MaxTime)
  \/ \E c \in Consumers :
       \/ InitOps(c)
       \/ ConsumerOps(c)

SpecBootstrap == Init /\ [][NextBootstrap]_vars

\* The whole state store over a stream of one shard: c1 runs in
\* auto-assignment mode and has started, c2 is a standalone consumer that
\* starts later, with the same or with another stream creation timestamp.
InitStore ==
  /\ isStandalone = [c \in Consumers |-> c = "c2"]
  /\ streamCreatedOn \in {f \in [Consumers -> Epochs] : f["c1"] = 1}
  /\ listing = {"s0"}
  /\ verLimit = MaxVerStore
  /\ doc = putStreamState(NoDoc, "c1", generate(0)).doc
  /\ verCtr = 1
  /\ now = 0
  /\ loc = [c \in Consumers |-> IdleLoc]
  /\ started = {"c1"}
  /\ ret = [c \in Consumers |-> NoRet]
  /\ marked = {}
  /\ NoPolling
  /\ NoManager
  /\ NoCall

\* s0 has no listed child, so markShardAsDepleted has no child to ensure.
NextStore ==
  \/ Tick(MaxTime)
  \/ \E c \in Consumers :
       \/ InitOps(c)
       \/ ConsumerOps(c)
       \/ LeaseOps(c)
       \/ MarkUpdate(c)
       \/ \E s \in listing :
            \/ EnsureShardStateExists(c, s)
            \/ MarkGet(c, s)
            \/ \E n \in ShardSeqNums(s) : StoreShardCheckpoint(c, s, n)

SpecStore == InitStore /\ [][NextStore]_vars

\* After StateStore.start() of every consumer of one stream: the item is the
\* one initStreamState puts.
InitStarted(ls, limit) ==
  /\ isStandalone = [c \in Consumers |-> FALSE]
  /\ streamCreatedOn = [c \in Consumers |-> 1]
  /\ listing = ls
  /\ verLimit = limit
  /\ doc = putStreamState(NoDoc, "c1", generate(0)).doc
  /\ verCtr = 1
  /\ now = 0
  /\ loc = [c \in Consumers |-> IdleLoc]
  /\ started = Consumers
  /\ ret = [c \in Consumers |-> NoRet]
  /\ marked = {}
  /\ NoPolling
  /\ NoManager
  /\ NoCall

\* The lease and checkpoint operations of consumers in auto-assignment mode.
NextLease ==
  \E c \in Consumers :
    \/ LeaseOps(c)
    \/ \E s \in listing : \E n \in ShardSeqNums(s) : StoreShardCheckpoint(c, s, n)

InitLease == InitStarted({"s0", "s1"}, MaxVer)

SpecLease == InitLease /\ [][NextLease]_vars

\* The checkpoint operations of consumers in auto-assignment mode, each
\* storeShardCheckpoint moving the stored checkpoint forward.
Forward(c, s, n) ==
  HasShard(doc, c, s) => n > ShardsAt(doc, c)[s].checkpoint

NextCheckpoint ==
  \E c \in Consumers :
    \/ MarkUpdate(c)
    \/ \E s \in listing :
         \/ EnsureShardStateExists(c, s)
         \/ MarkGet(c, s)
         \/ MarkEnsure(c, s)
         \/ \E n \in ShardSeqNums(s) : Forward(c, s, n) /\ StoreShardCheckpoint(c, s, n)

InitCheckpoint == InitStarted({"s0", "s1"}, MaxVerCheckpoint)

SpecCheckpoint == InitCheckpoint /\ [][NextCheckpoint]_vars

\* The same operations on a stream that lists both children of the split.
InitSplit == InitStarted(ShardIds, MaxVerSplit)

SpecSplit == InitSplit /\ [][NextCheckpoint]_vars

\* One polling consumer at a time on shard s0, whose lease c1 holds, in
\* either mode: the item after StateStore.start(), registerConsumer,
\* ensureShardStateExists and lockShardLease.
\* The shard is open, or it is closed with all its records written and its
\* child listed.
InitPoll ==
  /\ isStandalone \in {f \in [Consumers -> BOOLEAN] : ~f["c2"]}
  /\ streamCreatedOn = [c \in Consumers |-> 1]
  /\ shard \in {[written |-> 0, closed |-> FALSE],
                 [written |-> MaxRecords, closed |-> TRUE]}
  /\ listing = IF shard.closed THEN {"s0", "s1"} ELSE {"s0"}
  /\ verLimit = MaxVer
  /\ verCtr = 3
  /\ now = 0
  /\ doc = lockShardLease(
             ensureShardStateExists(
               registerConsumer(putStreamState(NoDoc, PollConsumer, 1).doc,
                                PollConsumer, 0).doc,
               PollConsumer, PollShard, NoShard, 2).doc,
             PollConsumer, PollShard, 2, now, 3).doc
  /\ loc = [c \in Consumers |-> IdleLoc]
  /\ started = Consumers
  /\ ret = [c \in Consumers |-> NoRet]
  /\ marked = {}
  /\ poll = NewPoll
  /\ options \in [useAutoCheckpoints : BOOLEAN, usePausedPolling : BOOLEAN,
                   shouldDeaggregate : BOOLEAN,
                   initialPositionInStream : {"LATEST", "TRIM_HORIZON"}]
  /\ pushed = [fetched |-> {}, delivered |-> {}, errored |-> FALSE, starts |-> 0]
  /\ held = [c \in Consumers |-> [s \in ShardIds |-> NoTime]]
  /\ NoManager
  /\ NoCall

NextPoll ==
  \/ Tick(MaxTimePoll)
  \/ PutRecord
  \/ PollStart
  \/ PollGetShardsData
  \/ PollEnter
  \/ PollStash
  \/ PollIterator
  \/ \E k \in 0 .. MaxRecords : \E last \in BOOLEAN : PollGetRecords(k, last)
  \/ PollExpiredIterator
  \/ PollGetRecordsError
  \/ PollCheckpoint
  \/ PollPush
  \/ PollTimeout
  \/ ContinuePolling
  \/ \E n \in SeqNums : UserSetCheckpoint(n)
  \/ PollStop
  \/ PollStopInFlight
  \/ UpdateLeaseExpiration
  \/ PollMarkGet
  \/ \E s \in listing : PollMarkEnsure(s)
  \/ PollMarkUpdate

SpecPoll == InitPoll /\ [][NextPoll]_vars

\* One instance of the polling consumer with usePausedPolling on, whose user
\* may call continuePolling() more than once for a batch; the lease is not
\* renewed and the clock stands still.
InitRuns ==
  /\ InitPoll
  /\ options.usePausedPolling /\ options.useAutoCheckpoints
  /\ ~options.shouldDeaggregate
  /\ options.initialPositionInStream = "TRIM_HORIZON"
  /\ ~isStandalone[PollConsumer]
  /\ shard.closed

NextRuns ==
  \/ PollStart /\ pushed.starts = 0
  \/ PollGetShardsData
  \/ PollEnter
  \/ PollStash /\ verCtr < MaxVerRuns
  \/ PollIterator
  \/ \E k \in 0 .. MaxRecords : \E last \in BOOLEAN : PollGetRecords(k, last)
  \/ PollExpiredIterator
  \/ PollTimeout
  \/ ContinuePolling
  \/ ContinuePollingAgain
  \/ PollSwitch
  \/ PollStop
  \/ PollMarkGet
  \/ \E s \in listing : PollMarkEnsure(s) /\ verCtr < MaxVerRuns
  \/ PollMarkUpdate /\ verCtr < MaxVerRuns

SpecRuns == InitRuns /\ [][NextRuns]_vars

\* One instance of the polling consumer on the closed shard, whose lease
\* stays held: the clock stands still, no call fails, an iterator does not
\* expire, and getRecords answers with at least one record while there is
\* one after the iterator.
InitDeplete ==
  /\ InitPoll
  /\ shard.closed

\* the steps of the instance, of the service and of a user that calls
\* continuePolling() for every batch
DepleteSteps ==
  \/ PollStart /\ pushed.starts = 0
  \/ PollGetShardsData
  \/ PollEnter
  \/ PollStash
  \/ PollIterator
  \/ \E k \in 0 .. MaxRecords :
       /\ k = 0 => poll.it = shard.written
       /\ PollGetRecords(k, poll.it + k = shard.written)
  \/ PollCheckpoint
  \/ PollPush
  \/ PollTimeout
  \/ ContinuePolling
  \/ PollMarkGet
  \/ \E s \in listing : PollMarkEnsure(s)
  \/ PollMarkUpdate

NextDeplete ==
  \/ DepleteSteps
  \/ \E n \in SeqNums : UserSetCheckpoint(n)

\* timeouts fire, calls return and the user continues
FairDeplete == WF_vars(DepleteSteps)

SpecDeplete == InitDeplete /\ [][NextDeplete]_vars /\ FairDeplete

\* The polling consumer of c1 in auto-assignment mode, on a shard whose
\* record has no checkpoint or one the service rejects, with a service that
\* may fail the requests for an iterator.
InitPollInvalid ==
  /\ isStandalone = [c \in Consumers |-> FALSE]
  /\ streamCreatedOn = [c \in Consumers |-> 1]
  /\ shard \in {[written |-> 0, closed |-> FALSE],
                 [written |-> MaxRecords, closed |-> TRUE]}
  /\ listing = IF shard.closed THEN {"s0", "s1"} ELSE {"s0"}
  /\ verLimit = MaxVer
  /\ verCtr = 4
  /\ now = 0
  /\ \E checkpoint \in {NoSeq, InvalidSeq} :
       doc = storeShardCheckpoint(
               lockShardLease(
                 ensureShardStateExists(
                   registerConsumer(putStreamState(NoDoc, PollConsumer, 1).doc,
                                    PollConsumer, 0).doc,
                   PollConsumer, PollShard, NoShard, 2).doc,
                 PollConsumer, PollShard, 2, now, 3).doc,
               PollConsumer, PollShard, checkpoint, 4).doc
  /\ loc = [c \in Consumers |-> IdleLoc]
  /\ started = Consumers
  /\ ret = [c \in Consumers |-> NoRet]
  /\ marked = {}
  /\ poll = NewPoll
  /\ options \in [useAutoCheckpoints : BOOLEAN, usePausedPolling : BOOLEAN,
                   shouldDeaggregate : BOOLEAN,
                   initialPositionInStream : {"LATEST", "TRIM_HORIZON"}]
  /\ pushed = [fetched |-> {}, delivered |-> {}, errored |-> FALSE, starts |-> 0]
  /\ held = [c \in Consumers |-> [s \in ShardIds |-> NoTime]]
  /\ NoManager
  /\ NoCall

NextPollInvalid ==
  \/ NextPoll
  \/ \E n \in 1 .. 2 : PollIteratorError(n)

SpecPollInvalid == InitPollInvalid /\ [][NextPollInvalid]_vars

\* The consumers of one stream start, with the creation timestamp of the
\* stream, over the item an earlier run left: it has a consumer and a shard,
\* and the creation timestamp of this stream or of one that was deleted.
InitRestart ==
  /\ isStandalone = [c \in Consumers |-> FALSE]
  /\ streamCreatedOn = [c \in Consumers |-> 1]
  /\ \E e \in Epochs :
       doc = [exists |-> TRUE, streamCreatedOn |-> e,
              consumers |-> Put(EmptyMap, "c2", [heartbeat |-> 0, isStandalone |-> FALSE,
                                                 shards |-> EmptyMap]),
              shards |-> Put(EmptyMap, "s0", NewShardState(NoShard, 2)),
              version |-> 1]
  /\ verCtr = 2
  /\ now = 0
  /\ listing = {"s0"}
  /\ verLimit = MaxVerStore
  /\ loc = [c \in Consumers |-> IdleLoc]
  /\ started = {}
  /\ ret = [c \in Consumers |-> NoRet]
  /\ marked = {}
  /\ NoPolling
  /\ NoManager
  /\ NoCall

SpecRestart == InitRestart /\ [][NextBootstrap]_vars

\* One call of the Kinesis client at a time.
InitClient == InitStarted({"s0"}, MaxVer)

NextClient ==
  \/ \E methodName \in RetriableMethods \cup PutMethods : \E n \in 0 .. MaxPut :
       ClientCall(methodName, n)
  \/ RetryAttempt
  \/ \E code \in RejectCodes : SdkRejects(code)
  \/ \E code \in ThrowCodes : SdkThrows(code)
  \/ SdkResolves
  \/ \E failed \in SUBSET (1 .. MaxPut) : SdkPutRecords(failed)
  \/ RetryTimeout

SpecClient == InitClient /\ [][NextClient]_vars

\* The consumers of one stream after StateStore.start(), their first
\* registerConsumer() and the first tick of their lease managers, which
\* found nothing to do: each refreshes its heartbeat, clears old consumers and runs its lease manager;
\* its polling consumers watch their leases and mark the shards they read to
\* the end. c1 runs in auto-assignment mode, c2 in either mode.
InitSys ==
  /\ isStandalone \in {f \in [Consumers -> BOOLEAN] : ~f["c1"]}
  /\ streamCreatedOn = [c \in Consumers |-> 1]
  /\ listing = {"s0", "s1"}
  /\ verLimit = MaxVerSys
  /\ doc = registerConsumer(
             registerConsumer(putStreamState(NoDoc, "c1", generate(0)).doc, "c1", 0).doc,
             "c2", 0).doc
  /\ verCtr = 1
  /\ now = 0
  /\ loc = [c \in Consumers |-> IdleLoc]
  /\ started = Consumers
  /\ ret = [c \in Consumers |-> NoRet]
  /\ marked = {}
  /\ NoPolling
  /\ manager = [c \in Consumers |-> [NewManager EXCEPT !.state = "Running", !.timers = 1]]
  /\ streamExists = TRUE
  /\ NoCall

NextSys ==
  \/ Tick(MaxTime)
  \/ \E c \in Consumers :
       \/ ConsumerOps(c)
       \/ LmStart(c)
       \/ LmResolve(c, FALSE)
       \/ LmSchedule(c)
       \/ LmEvaluate(c)
       \/ LmRelease(c)
       \/ LmLock(c)
       \/ LmReconcile(c)
       \/ MarkUpdate(c)
       \/ \E s \in listing :
            \/ PollLeaseExpired(c, s)
            \/ PollDepleted(c, s)
            \/ PollDepletedStop(c, s)

SpecSys == InitSys /\ [][NextSys]_vars

\* The lease managers of the consumers of a stream of one shard, started and
\* stopped at any time, while the stream may be deleted. The shard has no
\* record yet, or it is leased to a consumer that has left the group.
InitManager ==
  /\ isStandalone = [c \in Consumers |-> FALSE]
  /\ streamCreatedOn = [c \in Consumers |-> 1]
  /\ listing = {"s0"}
  /\ verLimit = MaxVerManager
  /\ now = 0
  /\ \E left \in BOOLEAN :
       IF left
         THEN /\ doc = lockShardLease(
                         ensureShardStateExists(
                           registerConsumer(putStreamState(NoDoc, "c1", 1).doc, "c1", 0).doc,
                           "c2", "s0", NoShard, 2).doc,
                         "c2", "s0", 2, now, 3).doc
              /\ verCtr = 3
         ELSE /\ doc = registerConsumer(
                         registerConsumer(putStreamState(NoDoc, "c1", 1).doc, "c1", 0).doc,
                         "c2", 0).doc
              /\ verCtr = 1
  /\ loc = [c \in Consumers |-> IdleLoc]
  /\ started = Consumers
  /\ ret = [c \in Consumers |-> NoRet]
  /\ marked = {}
  /\ NoPolling
  /\ NoManager
  /\ NoCall

NextManager ==
  \/ Tick(MaxTime)
  \/ DeleteStream
  \/ \E c \in Consumers :
       \/ ManagerStart(c)
       \/ ManagerStop(c)
       \/ LmStart(c)
       \/ \E failed \in BOOLEAN : LmResolve(c, failed)
       \/ LmEvaluate(c)
       \/ LmRelease(c)
       \/ LmLock(c)
       \/ LmReconcile(c)
       \/ LmSchedule(c)
       \/ LmDiscard(c)
       \/ LmShardError(c)

SpecManager == InitManager /\ [][NextManager]_vars

\* Consumer c1 registered, took the lease of s0 and crashed; consumer c2 goes
\* on: it refreshes its heartbeat, clears old consumers and its lease manager
\* ticks. Every timer of c2 fires and every call it made returns, and the
\* stream service does not fail its ticks for ever.
Crashed == "c1"
Survivor == "c2"

InitCrash ==
  /\ isStandalone = [c \in Consumers |-> FALSE]
  /\ streamCreatedOn = [c \in Consumers |-> 1]
  /\ listing = {"s0", "s1"}
  /\ verLimit = MaxVerSys
  /\ now = 0
  /\ doc = lockShardLease(
             ensureShardStateExists(
               registerConsumer(
                 registerConsumer(putStreamState(NoDoc, Crashed, 1).doc, Crashed, 0).doc,
                 Survivor, 0).doc,
               Crashed, "s0", NoShard, 2).doc,
             Crashed, "s0", 2, now, 3).doc
  /\ verCtr = 3
  /\ loc = [c \in Consumers |-> IdleLoc]
  /\ started = {Survivor}
  /\ ret = [c \in Consumers |-> NoRet]
  /\ marked = {}
  /\ NoPolling
  /\ manager = [c \in Consumers |->
                  IF c = Survivor THEN [NewManager EXCEPT !.state = "Running", !.timers = 1]
                  ELSE NewManager]
  /\ streamExists = TRUE
  /\ NoCall

NextCrash ==
  \/ Tick(MaxTime)
  \/ ConsumerOps(Survivor)
  \/ LmStart(Survivor)
  \/ \E failed \in BOOLEAN : LmResolve(Survivor, failed)
  \/ LmEvaluate(Survivor)
  \/ LmRelease(Survivor)
  \/ LmLock(Survivor)
  \/ LmReconcile(Survivor)
  \/ LmSchedule(Survivor)

FairCrash ==
  /\ WF_vars(Tick(MaxTime))
  /\ SF_vars(ClearGet(Survivor))
  /\ WF_vars(ClearUpdate(Survivor))
  /\ WF_vars(RefreshHeartbeat(Survivor))
  /\ SF_vars(LmStart(Survivor))
  /\ SF_vars(LmResolve(Survivor, FALSE))
  /\ WF_vars(LmEvaluate(Survivor))
  /\ WF_vars(LmRelease(Survivor))
  /\ WF_vars(LmLock(Survivor))
  /\ WF_vars(LmReconcile(Survivor))
  /\ WF_vars(LmSchedule(Survivor))

SpecCrash == InitCrash /\ [][NextCrash]_vars /\ FairCrash

\* Two consumers in auto-assignment mode and one shard, whose lease c1 took
\* at time 0 with its polling consumer running; the clock runs past the
\* expiration of that lease. Each consumer refreshes its heartbeat, clears
\* old consumers and runs its lease manager; a polling consumer that reads
\* the shard to its end marks it depleted.
InitTakeover ==
  /\ isStandalone = [c \in Consumers |-> FALSE]
  /\ streamCreatedOn = [c \in Consumers |-> 1]
  /\ listing = {"s0"}
  /\ verLimit = MaxVerTakeover
  /\ now = 0
  /\ doc = lockShardLease(
             ensureShardStateExists(
               registerConsumer(
                 registerConsumer(putStreamState(NoDoc, "c1", 1).doc, "c1", 0).doc,
                 "c2", 0).doc,
               "c1", "s0", NoShard, 2).doc,
             "c1", "s0", 2, now, 3).doc
  /\ verCtr = 3
  /\ loc = [c \in Consumers |-> IdleLoc]
  /\ started = Consumers
  /\ ret = [c \in Consumers |-> NoRet]
  /\ marked = {}
  /\ poll = NewPoll
  /\ options = [useAutoCheckpoints |-> TRUE, usePausedPolling |-> FALSE,
                shouldDeaggregate |-> FALSE, initialPositionInStream |-> "LATEST"]
  /\ shard = [written |-> 0, closed |-> FALSE]
  /\ pushed = [fetched |-> {}, delivered |-> {}, errored |-> FALSE, starts |-> 0]
  /\ held = [c \in Consumers |->
               [s \in ShardIds |-> IF c = "c1" /\ s = "s0" THEN now + LeaseTerm ELSE NoTime]]
  /\ manager = [c \in Consumers |-> [NewManager EXCEPT !.state = "Running", !.timers = 1]]
  /\ streamExists = TRUE
  /\ NoCall

NextTakeover ==
  \/ Tick(MaxTimeTakeover)
  \/ \E c \in Consumers :
       \/ ConsumerOps(c)
       \/ LmStart(c)
       \/ LmResolve(c, FALSE)
       \/ LmSchedule(c)
       \/ LmEvaluate(c)
       \/ LmRelease(c)
       \/ LmLock(c)
       \/ LmReconcile(c)
       \/ MarkUpdate(c)
       \/ \E s \in listing :
            \/ PollLeaseExpired(c, s)
            \/ PollDepleted(c, s)
            \/ PollDepletedStop(c, s)

SpecTakeover == InitTakeover /\ [][NextTakeover]_vars

\* Two consumers of a stream that lists the shards s1 and s2, whose parent
\* is listed no more: both are roots. c1 runs in auto-assignment mode, c2 in
\* either mode; both stay in consumers, each runs its lease manager, and its
\* polling consumers watch their leases. The clock runs past the expiration
\* of the first leases.
InitBalance ==
  /\ isStandalone \in {f \in [Consumers -> BOOLEAN] : ~f["c1"]}
  /\ streamCreatedOn = [c \in Consumers |-> 1]
  /\ listing = {"s1", "s2"}
  /\ verLimit = MaxVerBalance
  /\ doc = registerConsumer(
             registerConsumer(putStreamState(NoDoc, "c1", generate(0)).doc, "c1", 0).doc,
             "c2", 0).doc
  /\ verCtr = 1
  /\ now = 0
  /\ loc = [c \in Consumers |-> IdleLoc]
  /\ started = Consumers
  /\ ret = [c \in Consumers |-> NoRet]
  /\ marked = {}
  /\ NoPolling
  /\ manager = [c \in Consumers |-> [NewManager EXCEPT !.state = "Running", !.timers = 1]]
  /\ streamExists = TRUE
  /\ NoCall

NextBalance ==
  \/ Tick(MaxTimeTakeover)
  \/ \E c \in Consumers :
       \/ LmStart(c)
       \/ LmResolve(c, FALSE)
       \/ LmSchedule(c)
       \/ LmEvaluate(c)
       \/ LmRelease(c)
       \/ LmLock(c)
       \/ LmReconcile(c)
       \/ \E s \in listing : PollLeaseExpired(c, s)

SpecBalance == InitBalance /\ [][NextBalance]_vars

\* The polling consumer of c1 on shard s0, whose lease c1 took at time 0,
\* and the lease manager of the consumer that is ticking: both consumers are
\* in auto-assignment mode, with useAutoCheckpoints on.
InitLeased(ticking) ==
  /\ isStandalone = [c \in Consumers |-> FALSE]
  /\ streamCreatedOn = [c \in Consumers |-> 1]
  /\ shard = [written |-> MaxRecords, closed |-> TRUE]
  /\ listing = {"s0"}
  /\ verLimit = MaxVerTakeover
  /\ verCtr = 3
  /\ now = 0
  /\ doc = lockShardLease(
             ensureShardStateExists(
               registerConsumer(
                 registerConsumer(putStreamState(NoDoc, PollConsumer, 1).doc,
                                  PollConsumer, 0).doc,
                 "c2", 0).doc,
               PollConsumer, PollShard, NoShard, 2).doc,
             PollConsumer, PollShard, 2, now, 3).doc
  /\ loc = [c \in Consumers |-> IdleLoc]
  /\ started = Consumers
  /\ ret = [c \in Consumers |-> NoRet]
  /\ marked = {}
  /\ poll = NewPoll
  /\ options \in [useAutoCheckpoints : {TRUE}, usePausedPolling : BOOLEAN,
                   shouldDeaggregate : {FALSE},
                   initialPositionInStream : {"LATEST", "TRIM_HORIZON"}]
  /\ pushed = [fetched |-> {}, delivered |-> {}, errored |-> FALSE, starts |-> 0]
  /\ held = [c \in Consumers |-> [s \in ShardIds |-> NoTime]]
  /\ manager = [c \in Consumers |->
                  IF c = ticking
                    THEN [NewManager EXCEPT !.state = "Running", !.timers = 1]
                    ELSE NewManager]
  /\ streamExists = TRUE
  /\ NoCall

\* the steps of the polling consumer of c1, and the clock
LeasedSteps ==
  \/ Tick(MaxTimePoll)
  \/ PollStart /\ pushed.starts = 0
  \/ PollGetShardsData
  \/ PollEnter
  \/ PollStash
  \/ PollIterator
  \/ \E k \in 0 .. MaxRecords : \E last \in BOOLEAN : PollGetRecords(k, last)
  \/ PollCheckpoint
  \/ PollPush
  \/ PollTimeout
  \/ ContinuePolling
  \/ PollMarkGet
  \/ PollMarkUpdate

\* c1 does not renew the lease, and the lease manager of c2 ticks
InitStolen == InitLeased("c2")

NextStolen ==
  \/ LeasedSteps
  \/ LmStart("c2")
  \/ LmResolve("c2", FALSE)
  \/ LmSchedule("c2")
  \/ LmEvaluate("c2")
  \/ LmRelease("c2")
  \/ LmLock("c2")
  \/ LmReconcile("c2")

SpecStolen == InitStolen /\ [][NextStolen]_vars

\* the lease manager of c1 ticks, and no other consumer does anything
InitRenew == InitLeased("c1")

NextRenew ==
  \/ LeasedSteps
  \/ LmStart("c1")
  \/ LmResolve("c1", FALSE)
  \/ LmSchedule("c1")
  \/ LmEvaluate("c1")
  \/ LmLock("c1")
  \/ LmReconcile("c1")

SpecRenew == InitRenew /\ [][NextRenew]_vars

\* Two live consumers in auto-assignment mode on a stream that lists two
\* shards without a listed parent. The item has no shard yet, or it has the
\* record of a shard that is not listed any more, leased to c1 and never
\* marked depleted. The clock stands still, so that no lease expires and
\* none is renewed; every timer fires and every call returns.
InitCover ==
  /\ isStandalone = [c \in Consumers |-> FALSE]
  /\ streamCreatedOn = [c \in Consumers |-> 1]
  /\ listing = {"s1", "s2"}
  /\ verLimit = MaxVerBalance
  /\ now = 0
  /\ \E unlisted \in BOOLEAN :
       LET registered ==
             registerConsumer(
               registerConsumer(putStreamState(NoDoc, "c1", generate(0)).doc, "c1", 0).doc,
               "c2", 0).doc
       IN IF unlisted
            THEN /\ doc = lockShardLease(
                            ensureShardStateExists(registered, "c1", "s0", NoShard, 2).doc,
                            "c1", "s0", 2, now, 3).doc
                 /\ verCtr = 3
            ELSE /\ doc = registered
                 /\ verCtr = 1
  /\ loc = [c \in Consumers |-> IdleLoc]
  /\ started = Consumers
  /\ ret = [c \in Consumers |-> NoRet]
  /\ marked = {}
  /\ NoPolling
  /\ manager = [c \in Consumers |-> [NewManager EXCEPT !.state = "Running", !.timers = 1]]
  /\ streamExists = TRUE
  /\ NoCall

CoverSteps(c) ==
  \/ LmStart(c)
  \/ LmResolve(c, FALSE)
  \/ LmSchedule(c)
  \/ LmEvaluate(c)
  \/ LmLock(c)
  \/ LmReconcile(c)

NextCover == \E c \in Consumers : CoverSteps(c)

\* the consumers keep ticking
FairCover == \A c \in Consumers : WF_vars(CoverSteps(c))

SpecCover == InitCover /\ [][NextCover]_vars /\ FairCover

\* ------------------------------------------------------------------------
\* Claims checked under SpecLease
\* ------------------------------------------------------------------------
\* the last call of c was lockShardLease(s, _, v)
LockedWith(c, s, v) ==
  ret[c].op = "lockShardLease" /\ ret[c].shard = s /\ ret[c].version = v

\* C1: when two consumers call lockShardLease on the same shard with the
\* same expected version, and that version was the shard's version when the
\* first of the calls was applied, exactly one of the calls returns true and
\* the other returns false.
C1_ExactlyOneLockWins ==
  \A c1, c2 \in Consumers : \A s \in ShardIds : \A v \in 1 .. MaxVer :
    ( /\ c1 # c2
      /\ LockedWith(c1, s, v) /\ LockedWith(c2, s, v)
      /\ (ret[c1].current = v \/ ret[c2].current = v) )
    => \/ ret[c1].result = "true" /\ ret[c2].result = "false"
       \/ ret[c1].result = "false" /\ ret[c2].result = "true"

\* C1 witness: two consumers raced for one shard with one version; one won.
C1_Witness ==
  \E c1, c2 \in Consumers : \E s \in ShardIds : \E v \in 1 .. MaxVer :
    /\ c1 # c2
    /\ LockedWith(c1, s, v) /\ LockedWith(c2, s, v)
    /\ ret[c1].current = v
    /\ ret[c1].result = "true" /\ ret[c2].result = "false"

\* ------------------------------------------------------------------------
\* Claims checked under SpecCheckpoint and SpecSplit
\* ------------------------------------------------------------------------
\* C3: the stored checkpoint of a shard never decreases (null counting as
\* the least value), whatever storeShardCheckpoint and markShardAsDepleted
\* calls the consumers issue.
C3_CheckpointNeverDecreases ==
  [][\A c \in Consumers : \A s \in ShardIds :
       (HasShard(doc, c, s) /\ HasShard(doc', c, s))
       => ShardsAt(doc', c)[s].checkpoint >= ShardsAt(doc, c)[s].checkpoint]_vars

\* the shards the stream lists as children of parentShardId
ListedChildren(parentShardId) ==
  {s \in listing : getStreamShards(listing)[s].parent = parentShardId}

\* C6 as claimed: every shard listed as a child of a depleted parent has a
\* record whose checkpoint has been set.
C6_EveryChildSeeded ==
  \A c \in Consumers : \A p \in ShardIds :
    (HasShard(doc, c, p) /\ ShardsAt(doc, c)[p].depleted)
    => \A s \in ListedChildren(p) :
         HasShard(doc, c, s) /\ ShardsAt(doc, c)[s].checkpoint # NoSeq

\* this step is the first request of markShardAsDepleted(_, p) by c
MarkGetStep(c, p) ==
  /\ loc[c].pc = "idle"
  /\ loc'[c].pc \in {"mark_ensure", "mark_update"}
  /\ loc'[c].shard = p

\* this step is the update of markShardAsDepleted(_, p) by c, and it succeeded
MarkUpdateStep(c, p) ==
  /\ loc[c].pc = "mark_update" /\ loc[c].shard = p
  /\ loc'[c].pc = "idle"
  /\ doc' # doc

\* C6 as amended: markShardAsDepleted seeds the listed children exactly when
\* the parent's record had a checkpoint when the operation read it, and its
\* update leaves every seeded child with a record whose checkpoint is the
\* child's startingSequenceNumber; with no checkpoint on the parent the
\* children's records are left as they were.
C6_ChildrenSeededIfParentCheckpointed ==
  [][\A c \in Consumers : \A p \in ShardIds :
       /\ MarkGetStep(c, p) =>
            loc'[c].children = IF doc.shards[p].checkpoint # NoSeq
                                 THEN ListedChildren(p) ELSE {}
       /\ MarkUpdateStep(c, p) =>
            /\ ShardsAt(doc', c)[p].depleted
            /\ \A s \in ListedChildren(p) :
                 IF s \in loc[c].children
                   THEN /\ HasShard(doc', c, s)
                        /\ ShardsAt(doc', c)[s].checkpoint = StartingSequenceNumber[s]
                   ELSE /\ HasShard(doc', c, s) = HasShard(doc, c, s)
                        /\ HasShard(doc, c, s) =>
                             ShardsAt(doc', c)[s] = ShardsAt(doc, c)[s]]_vars

\* C6 witness: a checkpointed parent was depleted and both of its children
\* hold their startingSequenceNumber as checkpoint.
C6_Witness ==
  /\ HasShard(doc, "c1", "s0") /\ doc.shards["s0"].depleted
  /\ doc.shards["s0"].checkpoint # NoSeq
  /\ \A s \in {"s1", "s2"} :
       HasShard(doc, "c1", s) /\ doc.shards[s].checkpoint = StartingSequenceNumber[s]

\* ------------------------------------------------------------------------
\* Claims checked under SpecStore and SpecBootstrap
\* ------------------------------------------------------------------------
Paths == {"shards"} \cup Consumers

\* the shard records under a path of the item d
SlotsAt(d, path) ==
  IF path = "shards" THEN d.shards
  ELSE IF path \in DOMAIN d.consumers THEN d.consumers[path].shards
  ELSE EmptyMap

\* C5 as claimed: once markShardAsDepleted has succeeded for a shard, its
\* record is there with depleted=true in every later state.
C5_DepletedIsPermanent ==
  \A m \in marked :
    m[2] \in DOMAIN SlotsAt(doc, m[1]) /\ SlotsAt(doc, m[1])[m[2]].depleted

\* this step is the delete of an initStreamState
InitDeleteStep ==
  \E x \in Consumers : loc[x].pc = "init_delete" /\ loc'[x].pc = "init_put"

\* this step is the update of a clearOldConsumers that removes consumer id
ClearUpdateStep(id) ==
  \E x \in Consumers :
    loc[x].pc = "clear_update" /\ id \in loc[x].old /\ loc'[x].pc = "idle"

\* C5 as amended: no operation of the state store sets depleted back to
\* false on a record; a record with depleted=true ceases to exist only when
\* initStreamState deletes the item (the stream creation timestamp did not
\* match) or when clearOldConsumers removes the standalone consumer whose
\* entry holds the record.
C5_DepletedUntilRecordRemoved ==
  [][\A path \in Paths : \A s \in ShardIds :
       (s \in DOMAIN SlotsAt(doc, path) /\ SlotsAt(doc, path)[s].depleted)
       => IF s \in DOMAIN SlotsAt(doc', path)
            THEN SlotsAt(doc', path)[s].depleted
            ELSE \/ InitDeleteStep
                 \/ path # "shards" /\ ClearUpdateStep(path)]_vars

\* C5 witness: markShardAsDepleted succeeded on a record of a standalone
\* consumer, no item was ever deleted, and the record is gone with the
\* consumer's entry.
C5_Witness ==
  /\ \A c \in Consumers : streamCreatedOn[c] = 1
  /\ doc.exists
  /\ \E m \in marked : m[1] # "shards" /\ m[1] \notin DOMAIN doc.consumers

\* the consumers map without the shard records of the standalone consumers
ConsumersMap(d) == [id \in DOMAIN d.consumers |-> d.consumers[id].heartbeat]

\* C7: every successful write changes the version of what it writes: the
\* version of a shard record differs before and after a write to the record,
\* and the version of the item differs before and after a write to its
\* consumers map.
C7_VersionChangesOnEveryWrite ==
  [][/\ \A path \in Paths : \A s \in ShardIds :
          ( /\ s \in DOMAIN SlotsAt(doc, path)
            /\ s \in DOMAIN SlotsAt(doc', path)
            /\ SlotsAt(doc', path)[s] # SlotsAt(doc, path)[s] )
          => SlotsAt(doc', path)[s].version # SlotsAt(doc, path)[s].version
     /\ (doc.exists /\ doc'.exists /\ ConsumersMap(doc') # ConsumersMap(doc))
          => doc'.version # doc.version]_vars

\* C8: no initStreamState fails, and once a call has returned the item is
\* there whenever no call stands between its delete and its put; so it is
\* there when all the calls have returned.
C8_ConcurrentInitLeavesOneItem ==
  /\ \A c \in Consumers : loc[c].pc # "failed"
  /\ (started # {} /\ \A c \in Consumers : loc[c].pc # "init_put") => doc.exists
  /\ started = Consumers => doc.exists

\* C8 witness: both consumers ran initStreamState for one stream; the put of
\* one created the item, the put of the other failed its condition.
C8_Witness ==
  /\ started = Consumers /\ doc.exists
  /\ streamCreatedOn["c1"] = streamCreatedOn["c2"]
  /\ \E a, b \in Consumers :
       /\ ret[a].op = "initStreamState" /\ ret[a].result = "ok"
       /\ ret[b].op = "initStreamState" /\ ret[b].result = CCF

\* C20: a standalone consumer keeps its shard records under
\* consumers.<self>.shards only: it is never the lease owner in the
\* top-level shards map, the lease owner in its own records is no other
\* consumer, and its markShardAsDepleted on a shard it has a record of finds
\* the parent (in that record) whatever the top-level shards map holds.
C20_StandaloneUsesOwnShardsOnly ==
  \A c \in Consumers :
    (isStandalone[c] /\ doc.exists) =>
      /\ \A s \in DOMAIN doc.shards : doc.shards[s].leaseOwner # c
      /\ \A s \in ShardIds :
           HasShard(doc, c, s) =>
             /\ ShardsAt(doc, c)[s].leaseOwner \in {c, NoOwner}
             /\ ~parentShardMissing(doc, s)

\* ------------------------------------------------------------------------
\* Claims checked under SpecPoll
\* ------------------------------------------------------------------------
\* C9: with auto-checkpoints on, whenever a checkpoint is stored for the
\* shard, every record the consumer fetched with a sequence number up to
\* that checkpoint has been pushed to the callback.
C9_CheckpointAfterDelivery ==
  options.useAutoCheckpoints =>
    \A n \in pushed.fetched : n <= Persisted.checkpoint => n \in pushed.delivered

\* C10: with auto-checkpoints on, no error and no paused polling, a new
\* polling consumer that is about to request its first iterator was given a
\* checkpoint, so it asks for AFTER_SEQUENCE_NUMBER, and that checkpoint is
\* no smaller than the sequence number of any record delivered before.
C10_RestartResumesAfterDelivered ==
  ( /\ options.useAutoCheckpoints /\ ~options.usePausedPolling
    /\ ~pushed.errored
    /\ pushed.starts > 1
    /\ poll.pc = "iterator" /\ poll.iterator = NoIter )
  => \A n \in pushed.delivered : poll.local # NoSeq /\ poll.local >= n

\* C11: with usePausedPolling and useAutoCheckpoints, a consumer that pushed
\* a batch leaves the paused state only through continuePolling() or stop(),
\* and when it is about to call getRecords again nothing is stashed any more
\* and the stored checkpoint is the sequence number of the last record of
\* the batch it pushed.
C11_PausedPollingCheckpointsBeforeFetch ==
  /\ []( ( /\ options.usePausedPolling /\ options.useAutoCheckpoints
           /\ poll.pc = "fetch" /\ poll.pushedLast # NoSeq )
         => /\ poll.seqNumToCheckpoint = NoSeq
            /\ Persisted.checkpoint = poll.pushedLast )
  /\ [][( /\ options.usePausedPolling /\ options.useAutoCheckpoints
          /\ poll.pc = "paused" /\ poll'.pc # "paused" )
        => (ContinuePolling \/ PollStop)]_vars

\* the position of an iterator AFTER_SEQUENCE_NUMBER at sequenceNumber
After(sequenceNumber) ==
  Cardinality({n \in 1 .. shard.written : SeqAt(n) <= sequenceNumber})

\* the step that handles an ExpiredIteratorException
ExpiredStep == poll.pc = "fetch" /\ poll'.expired

\* the step that requests the iterator which replaces an expired one
ReplaceStep == poll.pc = "iterator" /\ poll.expired /\ poll'.pc = "fetch"

\* C12: on an ExpiredIteratorException the iterator is dropped and
\* pollForRecords entered again with the stored and the local checkpoint
\* unchanged, and the iterator that replaces it is AFTER_SEQUENCE_NUMBER at
\* the checkpoint, so that no record after the checkpoint is skipped.
C12_ExpiredIteratorResumesAtCheckpoint ==
  [][ /\ ExpiredStep => /\ poll'.iterator = NoIter /\ poll'.pc = "poll"
                        /\ poll'.checkpoint = poll.checkpoint /\ doc' = doc
      /\ ReplaceStep => /\ poll.local # NoSeq
                        /\ poll.local = Persisted.checkpoint
                        /\ poll'.it = After(poll.local) ]_vars

\* C12, amended: as C12 when a checkpoint is known; without one the iterator
\* that replaces the expired one is requested at initialPositionInStream.
C12_ExpiredIteratorResumesAtCheckpointIfAny ==
  [][ /\ ExpiredStep => /\ poll'.iterator = NoIter /\ poll'.pc = "poll"
                        /\ poll'.checkpoint = poll.checkpoint /\ doc' = doc
      /\ ReplaceStep => /\ poll.local = Persisted.checkpoint
                        /\ poll.local # NoSeq => poll'.it = After(poll.local)
                        /\ poll.local = NoSeq =>
                             poll'.it = IF options.initialPositionInStream = "LATEST"
                                          THEN shard.written ELSE 0 ]_vars

\* an expired iterator is about to be replaced, a checkpoint is known and
\* the shard has records after it
C12_Witness ==
  /\ poll.pc = "iterator" /\ poll.expired
  /\ poll.local # NoSeq
  /\ After(poll.local) < shard.written

\* the consumer was told that the shard is read to its end and has not
\* finished marking it
Marking == {"depleted", "mark_ensure", "mark_update"}

\* C13: once getRecords answers with no records and no next iterator, the
\* consumer does nothing but markShardAsDepleted for its shard and then
\* stopConsumer: it pushes no error, schedules no poll, and when it stops the
\* record of its shard has depleted=true.
C13_EndOfShardMarksDepletedAndStops ==
  [][ poll.pc \in Marking =>
        /\ poll'.pc \in Marking \cup {"stopped"}
        /\ poll'.pc = "stopped" => /\ poll.pc = "mark_update"
                                   /\ Persisted'.depleted ]_vars

\* C21: with useAutoCheckpoints on, the sequence numbers an instance passes
\* to storeShardCheckpoint never decrease: each is no smaller than the one it
\* passed before.
C21_CheckpointsOfAnInstanceNeverDecrease ==
  (options.useAutoCheckpoints /\ poll.storedBefore # NoSeq)
    => poll.stored >= poll.storedBefore

\* C19: an instance that was stopped while its getRecords call was in flight
\* pushes no records, stores no checkpoint and schedules no poll.
C19_StoppedInstanceDiscardsResult ==
  [][poll.stoppedAt = "fetch" =>
       /\ pushed'.delivered = pushed.delivered
       /\ Persisted'.checkpoint = Persisted.checkpoint
       /\ poll'.pc # "scheduled"]_vars

\* ------------------------------------------------------------------------
\* Claims checked under SpecManager
\* ------------------------------------------------------------------------
\* a tick of c's lease manager is in flight
InTick(c) == loc[c].pc \in LmPcs

\* the reconcile loops of c that are pending: timers and ticks in flight
Loops(c) == manager[c].timers + (IF InTick(c) THEN 1 ELSE 0)

C15_StopClearsTimerStartResumes ==
  /\ [](\A c \in Consumers : ~Running(c) => manager[c].timers = 0)
  /\ [][\A c \in Consumers :
          /\ (~Running(c) /\ ~InTick(c) /\ InTick(c)') => Running(c)'
          /\ (~Running(c) /\ InTick(c) /\ loc'[c] # loc[c])
               => loc'[c] = IdleLoc /\ doc' = doc /\ held' = held
          /\ (~Running(c) /\ Running(c)') => loc'[c].pc = "lm_resolve"
          /\ (Running(c) /\ InTick(c) /\ ~InTick(c)' /\ Running(c)')
               => manager'[c].timers = 1]_vars

\* a manager that was stopped runs again, its tick over and the next scheduled
C15_Witness ==
  \E c \in Consumers :
    manager[c].wasStopped /\ Running(c) /\ ~InTick(c) /\ manager[c].timers = 1

\* this step is c's tick finding that the stream is gone
StreamGoneStep(c) ==
  /\ loc[c].pc = "lm_resolve" /\ Running(c) /\ ~streamExists
  /\ loc'[c] # loc[c]
  /\ loc'[c].pc # "lm_error"

\* C16: a tick that finds the stream gone tells the consumers manager to
\* stop, which leaves the consumer without polling consumers, makes the
\* manager idle with no timer, and evaluates no shard.
C16_StreamGoneStopsManager ==
  [][\A c \in Consumers :
       StreamGoneStep(c)
       => /\ manager'[c].stopped
          /\ ~Running(c)' /\ manager'[c].timers = 0
          /\ loc'[c] = IdleLoc
          /\ \A s \in ShardIds : held'[c][s] = NoTime
          /\ doc' = doc]_vars

\* a manager stopped itself and the consumers manager for a missing stream
C16_Witness ==
  \E c \in Consumers : manager[c].stopped /\ ~streamExists /\ ~Running(c)

\* C17: an error thrown in a tick ends neither the manager nor its loop: a
\* running manager has a timer pending or a tick in flight, a tick that
\* ends on a running manager leaves the next one scheduled, and a manager
\* stops running only in stop() or in the tick that finds the stream gone.
C17_ErrorsNeverEndTheLoop ==
  /\ [](\A c \in Consumers : Running(c) => Loops(c) = 1)
  /\ [][\A c \in Consumers :
          /\ (Running(c) /\ InTick(c) /\ ~InTick(c)' /\ Running(c)')
               => manager'[c].timers = 1
          /\ (Running(c) /\ ~Running(c)')
               => \/ StreamGoneStep(c)
                  \/ loc' = loc /\ manager'[c].wasStopped]_vars

\* a tick threw, and the manager runs with its next tick scheduled
C17_Witness ==
  \E c \in Consumers :
    manager[c].errors /\ Running(c) /\ ~InTick(c) /\ manager[c].timers = 1

\* ------------------------------------------------------------------------
\* Claims checked under SpecCrash
\* ------------------------------------------------------------------------
\* C18: the record of the crashed consumer is eventually removed from
\* consumers, and the surviving consumer eventually owns the lease of the
\* shard the crashed one held.
C18_CrashedOwnerIsReplaced ==
  /\ <>(Crashed \notin DOMAIN doc.consumers)
  /\ <>(doc.shards["s0"].leaseOwner = Survivor)

\* the survivor owns the lease and the crashed consumer is removed before the
\* lease the crashed consumer took at time 0 has expired
C18_Witness ==
  /\ Crashed \notin DOMAIN doc.consumers
  /\ doc.shards["s0"].leaseOwner = Survivor
  /\ ~(now > LeaseTerm)

\* ------------------------------------------------------------------------
\* Claims checked under SpecSys
\* ------------------------------------------------------------------------
\* c has a polling consumer of s whose lease has not expired
HoldsLease(c, s) == held[c][s] # NoTime /\ ~(now > held[c][s])

\* C2: for every shard, at most one of the consumers that share the leases
\* of the stream (auto-assignment mode; a standalone consumer leases every
\* shard for itself) has a polling consumer of the shard whose locally held
\* lease expiration has not passed.
C2_AtMostOneLeaseHolder ==
  \A s \in ShardIds :
    Cardinality({c \in Consumers : ~isStandalone[c] /\ HoldsLease(c, s)}) <= 1

\* the parent of s has a record among c's shard records, with depleted=false
ParentPresentNotDepleted(d, c, s) ==
  /\ HasShard(d, c, s)
  /\ ShardsAt(d, c)[s].parent # NoShard
  /\ HasShard(d, c, ShardsAt(d, c)[s].parent)
  /\ ~ShardsAt(d, c)[ShardsAt(d, c)[s].parent].depleted

\* C4: no step in which a consumer's lockShardLease on a shard succeeds
\* (acquire, renew, and the lock of steal and reclaim) or in which a polling
\* consumer is started for a shard finds the shard's parent recorded with
\* depleted=false.
C4_NoLeaseBeforeParentDepleted ==
  [][\A c \in Consumers : \A s \in ShardIds :
       ( \/ /\ loc[c].pc = "lm_lock" /\ loc[c].shard = s
            /\ doc' # doc
         \/ held[c][s] = NoTime /\ held'[c][s] # NoTime )
       => ~ParentPresentNotDepleted(doc, c, s)]_vars

\* ------------------------------------------------------------------------
\* Claims checked under SpecClient
\* ------------------------------------------------------------------------
\* the wrappers that retry one request
Wrappers == RetriableMethods \cup {"putRecord"}

\* the step in which a request of a wrapper ends
RequestEnds == call.method \in Wrappers /\ call.pc = "request" /\ call'.pc # "request"

\* C22: for each of describeStream, getRecords, getShardIterator, listShards,
\* listStreamConsumers, listTagsForStream, putRecord and waitFor: a request
\* that ends with a retry-eligible error is issued again, however many
\* attempts were made, so the call is never rejected with such an error; a
\* request that ends with another error rejects the call with no further
\* attempt, after one attempt when it was the first.
C22_RetryEligibleErrorsAreRetriedOthersReject ==
  /\ [](call.method \in Wrappers =>
          /\ call.pc = "rejected" => call.err \notin RetryEligible
          /\ call.pc = "wait" => call.err \in RetryEligible)
  /\ [][ /\ RequestEnds =>
              /\ call'.attempts = call.attempts
              /\ call'.err \in RetryEligible => call'.pc = "wait"
              /\ call'.err \in OtherCodes => call'.pc = "rejected"
              /\ call'.err = NoCode => call'.pc = "resolved"
         /\ (call.method \in Wrappers /\ call.pc = "wait" /\ call' # call) =>
              call'.pc = "sdk" /\ call'.method = call.method
         /\ (call.method \in Wrappers /\ call.pc = "sdk" /\ call' # call) =>
              call'.pc = "request" /\ call'.attempts = call.attempts + 1 ]_vars

\* a wrapper's call was rejected at its first attempt, and another resolved
\* after its request was issued again
C22_Witness ==
  /\ call.method \in Wrappers
  /\ \/ call.pc = "rejected" /\ call.attempts = 1 /\ call.err = "InvalidArgumentException"
     \/ call.pc = "resolved" /\ call.attempts = MaxAttempts

VersionsIn(d) ==
  UNION {{SlotsAt(d, path)[s].version : s \in DOMAIN SlotsAt(d, path)} : path \in Paths}

\* this step is c's lockShardLease(s, _, _) returning
LockStep(c, s) ==
  ret'[c] # ret[c] /\ ret'[c].op = "lockShardLease" /\ ret'[c].shard = s

\* C24: lockShardLease(shardId, leaseTermMs, expectedVersion) changes the
\* record of the shard exactly when the record is there with version
\* expectedVersion: then it returns true and the record has leaseOwner = the
\* caller, leaseExpiration = now + leaseTermMs and a version no record had,
\* its other fields as before; otherwise it returns false and the item is as
\* before. No other record changes in either case.
C24_LockChangesRecordIffVersionMatches ==
  [][\A c \in Consumers : \A s \in ShardIds :
       LockStep(c, s) =>
         LET expected == ret'[c].version
             before == ShardsAt(doc, c)[s]
             after == ShardsAt(doc', c)[s] IN
           IF HasShard(doc, c, s) /\ before.version = expected
             THEN /\ ret'[c].result = "true"
                  /\ HasShard(doc', c, s)
                  /\ after = [before EXCEPT !.leaseOwner = c,
                                            !.leaseExpiration = now + LeaseTerm,
                                            !.version = after.version]
                  /\ after.version \notin VersionsIn(doc)
                  /\ \A path \in Paths : \A s2 \in DOMAIN SlotsAt(doc, path) :
                       (path # Path(c) \/ s2 # s) =>
                         /\ s2 \in DOMAIN SlotsAt(doc', path)
                         /\ SlotsAt(doc', path)[s2] = SlotsAt(doc, path)[s2]
             ELSE /\ ret'[c].result = "false"
                  /\ doc' = doc]_vars

\* a consumer's lockShardLease returned false for a record that was there
\* with another version, and left it without an owner
C24_Witness ==
  \E c \in Consumers : \E s \in ShardIds :
    /\ ret[c].op = "lockShardLease" /\ ret[c].shard = s /\ ret[c].result = "false"
    /\ ret[c].current \notin {NoVersion, ret[c].version}
    /\ HasShard(doc, c, s)
    /\ ShardsAt(doc, c)[s].leaseOwner = NoOwner

\* this step is c's clearOldConsumers reading the item, and its update
\* returning
ClearReadStep(c) == loc[c].pc = "idle" /\ loc'[c].pc = "clear_update"
ClearWriteStep(c) == loc[c].pc = "clear_update" /\ loc'[c].pc # "clear_update"

\* C25: clearOldConsumers(failureTimeout) goes on to its update with the
\* consumers whose heartbeat was older than failureTimeout in the item it
\* read; the update removes exactly these records, and changes nothing else
\* but the version, if the item still has the version that was read; if not
\* it leaves the item as it is; in both cases the call ends without an error.
C25_ClearRemovesOldIfVersionUnchanged ==
  [][\A c \in Consumers :
       /\ ClearReadStep(c) =>
            /\ loc'[c].version = doc.version
            /\ loc'[c].old = {id \in DOMAIN doc.consumers :
                                now - doc.consumers[id].heartbeat > HeartbeatTimeout}
            /\ doc' = doc
       /\ ClearWriteStep(c) =>
            /\ loc'[c].pc = "idle" /\ ret'[c] = ret[c]
            /\ IF doc.exists /\ doc.version = loc[c].version
                 THEN /\ DOMAIN doc'.consumers = DOMAIN doc.consumers \ loc[c].old
                      /\ \A id \in DOMAIN doc'.consumers :
                           doc'.consumers[id] = doc.consumers[id]
                      /\ doc' = [doc EXCEPT !.consumers = doc'.consumers,
                                            !.version = doc'.version]
                 ELSE doc' = doc]_vars

\* a clearOldConsumers is about to update an item whose version is not the
\* one it read any more, while a record it found old is still there
C25_Witness ==
  \E c \in Consumers :
    /\ loc[c].pc = "clear_update"
    /\ doc.exists /\ doc.version # loc[c].version
    /\ loc[c].old \cap DOMAIN doc.consumers # {}

\* ------------------------------------------------------------------------
\* Claims checked under SpecRestart
\* ------------------------------------------------------------------------
\* this step is a request of c's initStreamState
InitStep(c) == loc[c].pc \in {"init_delete", "init_put"} /\ loc'[c] # loc[c]

\* C26: an initStreamState leaves the consumers and the shards of an item
\* with the caller's creation timestamp as they are, also when the consumers
\* of the stream start and register at the same time; and when it returns
\* after it found an item with another creation timestamp, the item that is
\* there has the caller's.
C26_InitKeepsMatchingItem ==
  [][\A c \in Consumers :
       InitStep(c) =>
         /\ (doc.exists /\ doc.streamCreatedOn = streamCreatedOn[c]) =>
              /\ doc'.consumers = doc.consumers
              /\ doc'.shards = doc.shards
         /\ (c \in started' /\ doc'.exists) =>
              doc'.streamCreatedOn = streamCreatedOn[c]]_vars

\* ------------------------------------------------------------------------
\* More claims checked under SpecSys
\* ------------------------------------------------------------------------
\* this step is c's lease manager deciding on shard s, whose record exists
DecisionStep(c, s) ==
  /\ loc[c].pc = "lm_eval" /\ Running(c)
  /\ s = Lowest(loc[c].pending)
  /\ PathOK(doc, c) /\ HasShard(doc, c, s)
  /\ loc'[c] # loc[c]

\* the consumers manager will be told to reconcile when the tick at l ends
ReconcileDue(l) == l.changed \/ l.pc = "lm_reconcile"

\* the decision of this step left the state store and the reconcile as they were
NoChange(c) ==
  /\ doc' = doc
  /\ loc'[c].pc \notin {"lm_lock", "lm_release"}
  /\ ReconcileDue(loc'[c]) = loc[c].changed

\* this step is c's lockShardLease succeeding
LockSucceeds(c) == loc[c].pc = "lm_lock" /\ Running(c) /\ loc'[c] # loc[c] /\ doc' # doc

\* the decision of c on its own lease of s: nothing changes while more than
\* half of the lease term remains; after that the lease is renewed with
\* lockShardLease at the version of the record
OwnLeaseDecision(c, s) ==
  IF 2 * (ShardsAt(doc, c)[s].leaseExpiration - now) > LeaseTerm
    THEN NoChange(c)
    ELSE /\ doc' = doc
         /\ loc'[c].pc = "lm_lock" /\ loc'[c].shard = s
         /\ loc'[c].version = ShardsAt(doc, c)[s].version

\* C27 as stated: for every shard whose leaseOwner is this consumer, the
\* manager changes nothing and asks for no reconcile while more than
\* leaseTermMs/2 of the lease remains, and otherwise renews it by calling
\* lockShardLease with the current version of the record; a lock that
\* succeeds is followed by the reconcile.
C27_OwnLeaseRenewedAtHalfTerm ==
  [][\A c \in Consumers :
       /\ \A s \in ShardIds :
            (DecisionStep(c, s) /\ ShardsAt(doc, c)[s].leaseOwner = c)
            => OwnLeaseDecision(c, s)
       /\ LockSucceeds(c) => ReconcileDue(loc'[c])]_vars

\* C27, amended: the same for every shard whose leaseOwner is this consumer
\* and whose record is not depleted; the lease of a depleted shard is never
\* renewed.
C27_OwnLeaseRenewedAtHalfTermUnlessDepleted ==
  [][\A c \in Consumers :
       /\ \A s \in ShardIds :
            (DecisionStep(c, s) /\ ShardsAt(doc, c)[s].leaseOwner = c)
            => IF ShardsAt(doc, c)[s].depleted THEN NoChange(c)
               ELSE OwnLeaseDecision(c, s)
       /\ LockSucceeds(c) => ReconcileDue(loc'[c])]_vars

\* a lease was renewed in this tick and the consumers manager reconciled:
\* the polling consumer of the shard has the renewed expiration
C27_Witness ==
  \E c \in Consumers : \E s \in ShardIds :
    /\ loc[c].pc = "lm_schedule" /\ loc[c].renewed
    /\ PathOK(doc, c) /\ HasShard(doc, c, s)
    /\ ShardsAt(doc, c)[s].leaseOwner = c
    /\ ShardsAt(doc, c)[s].leaseExpiration = now + LeaseTerm
    /\ held[c][s] = now + LeaseTerm

\* ------------------------------------------------------------------------
\* Claims checked under SpecTakeover
\* ------------------------------------------------------------------------
\* s is leased to a consumer other than c, and the lease expired or its
\* owner has no record in consumers
Takeable(c, s) ==
  /\ ShardsAt(doc, c)[s].leaseOwner \notin {NoOwner, c}
  /\ \/ now > ShardsAt(doc, c)[s].leaseExpiration
     \/ ShardsAt(doc, c)[s].leaseOwner \notin DOMAIN doc.consumers

\* this step is c's releaseShardLease returning
ReleaseStep(c) == loc[c].pc = "lm_release" /\ Running(c) /\ loc'[c] # loc[c]

\* the decision of c to take s over: releaseShardLease is called with the
\* version of the record
ReleaseFirst(c, s) ==
  /\ doc' = doc
  /\ loc'[c].pc = "lm_release" /\ loc'[c].shard = s
  /\ loc'[c].version = ShardsAt(doc, c)[s].version

\* releaseShardLease returned to c: the lock is attempted on the same shard
\* if the lease was released; if not, the tick goes on without a lock
\* attempt and ends with the reconcile
LockOnlyIfReleased(c) ==
  IF doc' # doc
    THEN /\ loc'[c].pc = "lm_lock" /\ loc'[c].shard = loc[c].shard
         /\ ShardsAt(doc', c)[loc[c].shard].leaseOwner = NoOwner
         /\ loc'[c].version = ShardsAt(doc', c)[loc[c].shard].version
    ELSE /\ loc'[c].pc # "lm_lock"
         /\ ReconcileDue(loc'[c])

\* C28 as stated: for every shard leased to another consumer whose lease
\* expired or whose owner is not in consumers, the manager first calls
\* releaseShardLease with the version it observed; it attempts lockShardLease
\* only if the release succeeded, and a release that fails is followed by
\* no lock attempt on the shard in this tick and by the reconcile.
C28_ReleaseBeforeTakeover ==
  [][\A c \in Consumers :
       /\ \A s \in ShardIds :
            (DecisionStep(c, s) /\ Takeable(c, s)) => ReleaseFirst(c, s)
       /\ ReleaseStep(c) => LockOnlyIfReleased(c)]_vars

\* C28, amended: the same for every such shard whose record is not
\* depleted; for a depleted one neither call is made.
C28_ReleaseBeforeTakeoverUnlessDepleted ==
  [][\A c \in Consumers :
       /\ \A s \in ShardIds :
            (DecisionStep(c, s) /\ Takeable(c, s))
            => IF ShardsAt(doc, c)[s].depleted THEN NoChange(c)
               ELSE ReleaseFirst(c, s)
       /\ ReleaseStep(c) => LockOnlyIfReleased(c)]_vars

\* c's release of a lease that had expired, while its owner is still in
\* consumers, failed: the owner renewed it first; c's tick ends with the
\* reconcile and without the lease
C28_Witness ==
  \E c, o \in Consumers :
    /\ c # o
    /\ loc[c].pc = "lm_reconcile" /\ loc[c].releaseFailed
    /\ ShardsAt(doc, c)["s0"].leaseOwner = o
    /\ o \in DOMAIN doc.consumers
    /\ ShardsAt(doc, c)["s0"].leaseExpiration = now + LeaseTerm
    /\ now = MaxTimeTakeover

\* s is leased to a consumer other than c, the lease has not expired and
\* its owner has a record in consumers
ActiveElsewhere(c, s) ==
  /\ PathOK(doc, c) /\ HasShard(doc, c, s)
  /\ ShardsAt(doc, c)[s].leaseOwner \notin {NoOwner, c}
  /\ ~(now > ShardsAt(doc, c)[s].leaseExpiration)
  /\ ShardsAt(doc, c)[s].leaseOwner \in DOMAIN doc.consumers

\* this step is the releaseShardLease or lockShardLease of c on s returning
LeaseCallStep(c, s) ==
  /\ loc[c].pc \in {"lm_release", "lm_lock"} /\ loc[c].shard = s
  /\ Running(c)
  /\ loc'[c] # loc[c]

\* the manager that finds such a lease leaves it alone: it goes on without a
\* call to releaseShardLease or lockShardLease and asks for no reconcile
ActiveLeaseDecisionSkips ==
  [][\A c \in Consumers : \A s \in ShardIds :
       (DecisionStep(c, s) /\ ActiveElsewhere(c, s)) => NoChange(c)]_vars

\* no releaseShardLease or lockShardLease of a different consumer changes
\* the record of such a lease
ActiveLeaseNeverTaken ==
  [][\A c \in Consumers : \A s \in ShardIds :
       (LeaseCallStep(c, s) /\ ActiveElsewhere(c, s)) => doc' = doc]_vars

\* C29: a lease that has not expired and whose owner is in consumers is
\* never released or taken over by a different consumer: the manager that
\* finds it makes no releaseShardLease or lockShardLease call and asks for
\* no reconcile, and no such call of a manager changes its record.
C29_ActiveLeaseOfAnotherIsLeftAlone ==
  [][\A c \in Consumers : \A s \in ShardIds :
       /\ (DecisionStep(c, s) /\ ActiveElsewhere(c, s)) => NoChange(c)
       /\ (LeaseCallStep(c, s) /\ ActiveElsewhere(c, s)) => doc' = doc]_vars

\* ------------------------------------------------------------------------
\* Depleted shards, checked under SpecSys
\* ------------------------------------------------------------------------
\* c's record of s has depleted=true
Depleted(c, s) ==
  PathOK(doc, c) /\ HasShard(doc, c, s) /\ ShardsAt(doc, c)[s].depleted

\* the manager that finds a depleted shard makes no call for it, and no
\* releaseShardLease or lockShardLease changes the record of a depleted shard
DepletedNeverLeased ==
  [][\A c \in Consumers : \A s \in ShardIds :
       /\ (DecisionStep(c, s) /\ Depleted(c, s)) => NoChange(c)
       /\ (LeaseCallStep(c, s) /\ Depleted(c, s)) => doc' = doc]_vars

\* C30: a shard whose record has depleted=true is never leased again: the
\* manager that finds it makes no lockShardLease or releaseShardLease call,
\* whatever its leaseOwner and leaseExpiration, no such call changes its
\* record, and no polling consumer is started for it.
C30_DepletedShardNeverLeasedNorPolled ==
  [][\A c \in Consumers : \A s \in ShardIds :
       /\ (DecisionStep(c, s) /\ Depleted(c, s)) => NoChange(c)
       /\ (LeaseCallStep(c, s) /\ Depleted(c, s)) => doc' = doc
       /\ (Depleted(c, s) /\ held[c][s] = NoTime) => held'[c][s] = NoTime]_vars

\* ------------------------------------------------------------------------
\* The cap on active leases, checked under SpecBalance
\* ------------------------------------------------------------------------
\* c's record of s has no owner, is not depleted, and its parent does not
\* keep it from being leased
Leasable(c, s) ==
  /\ ShardsAt(doc, c)[s].leaseOwner = NoOwner
  /\ ~ShardsAt(doc, c)[s].depleted
  /\ ~parentNotDepleted(doc, ShardsAt(doc, c)[s])

\* the consumers in auto-assignment mode that have a record in consumers
AutoConsumers == {id \in DOMAIN doc.consumers : ~isStandalone[id]}

\* the shards not depleted whose lease c owns
OwnedActive(c) ==
  {s \in DOMAIN ShardsAt(doc, c) :
     ShardsAt(doc, c)[s].leaseOwner = c /\ ~ShardsAt(doc, c)[s].depleted}

\* c owns ceil(|shards| / |active consumers|) leases of shards that are not
\* depleted, or more
AtCap(c) ==
  /\ AutoConsumers # {}
  /\ Cardinality(OwnedActive(c)) * Cardinality(AutoConsumers) >= Cardinality(listing)

\* the manager skips the shard and asks for the reconcile
SkippedForCap(c) ==
  /\ doc' = doc
  /\ loc'[c].pc \notin {"lm_lock", "lm_release"}
  /\ ReconcileDue(loc'[c])

\* the manager attempts the lock of the free shard
LockAttempted(c, s) ==
  /\ doc' = doc
  /\ loc'[c].pc = "lm_lock" /\ loc'[c].shard = s
  /\ loc'[c].version = ShardsAt(doc, c)[s].version

\* C31 as stated: in auto-assignment mode the manager whose consumer owns
\* maxActive = ceil(|shards| / |active consumers|) leases of shards not
\* depleted takes no new lease: it makes no releaseShardLease or
\* lockShardLease call for a shard it does not own, and a shard it could
\* lease is skipped with the reconcile asked for; in standalone mode the
\* lock of a free shard is attempted whatever the consumer owns.
C31_NoNewLeaseAtMaxActiveUnlessStandalone ==
  [][\A c \in Consumers : \A s \in ShardIds :
       /\ (DecisionStep(c, s) /\ ~isStandalone[c] /\ AtCap(c)
           /\ ShardsAt(doc, c)[s].leaseOwner # c)
          => loc'[c].pc \notin {"lm_lock", "lm_release"}
       /\ (DecisionStep(c, s) /\ Leasable(c, s))
          => IF ~isStandalone[c] /\ AtCap(c) THEN SkippedForCap(c)
             ELSE LockAttempted(c, s)]_vars

\* C31, amended: the cap keeps the manager from acquiring free shards only:
\* a free shard is skipped with the reconcile asked for when the consumer
\* owns maxActive leases, and its lock is attempted otherwise and always in
\* standalone mode; an expired lease of another consumer is taken over at
\* the cap too.
C31_NoAcquireAtMaxActiveUnlessStandalone ==
  [][\A c \in Consumers : \A s \in ShardIds :
       (DecisionStep(c, s) /\ Leasable(c, s))
       => IF ~isStandalone[c] /\ AtCap(c) THEN SkippedForCap(c)
          ELSE LockAttempted(c, s)]_vars

\* an auto-assignment consumer that owns one of the two leases skipped the
\* free shard for the cap, and its tick ends with the reconcile
C31_Witness ==
  /\ loc["c1"].pc = "lm_reconcile" /\ loc["c1"].capped
  /\ Cardinality(OwnedActive("c1")) = 1

\* ------------------------------------------------------------------------
\* The reconcile of the consumers manager, checked under SpecSys
\* ------------------------------------------------------------------------
\* this step is c's lockShardLease returning false
LockFails(c) == loc[c].pc = "lm_lock" /\ Running(c) /\ loc'[c] # loc[c] /\ doc' = doc

\* this step is consumersManager.reconcile() of c
ReconcileStep(c) == loc[c].pc = "lm_reconcile" /\ loc'[c].pc = "lm_schedule"

\* the shards whose record names c as the owner of the lease
OwnedNow(c) ==
  {s \in DOMAIN ShardsAt(doc, c) : ShardsAt(doc, c)[s].leaseOwner = c}

\* this step is the manager skipping a shard for the cap on active leases
CapStep(c) ==
  /\ loc[c].pc = "lm_eval" /\ Running(c) /\ loc'[c] # loc[c]
  /\ PathOK(doc, c) /\ HasShard(doc, c, Lowest(loc[c].pending))
  /\ Leasable(c, Lowest(loc[c].pending))
  /\ ~isStandalone[c]

LatePollStep == poll.pc = "poll" /\ now > poll.leaseExpiration /\ poll'.pc # "poll"

\* C33: a poll that begins after the lease expiration the instance holds
\* (from its constructor or the last updateLeaseExpiration) stops the
\* consumer at once: no iterator is requested, no records are fetched, no
\* checkpoint is stored, nothing is delivered, and the instance polls no more.
C33_LatePollStopsWithoutCalls ==
  /\ [](poll.leaseExpired => poll.pc = "stopped")
  /\ [][LatePollStep
        => /\ poll' = [poll EXCEPT !.pc = "stopped", !.leaseExpired = TRUE]
           /\ doc' = doc /\ verCtr' = verCtr
           /\ pushed' = pushed /\ marked' = marked]_vars

\* a paused consumer was stopped by a late poll, with the checkpoint of its
\* last batch kept back and never stored
C33_Witness ==
  /\ poll.leaseExpired
  /\ poll.seqNumToCheckpoint # NoSeq
  /\ Persisted.checkpoint # poll.seqNumToCheckpoint

\* ------------------------------------------------------------------------
\* The iterator of a fetch, checked under SpecPollInvalid
\* ------------------------------------------------------------------------

\* the step of pollForRecords that obtains an iterator when none is held
AcquireStep == poll.pc = "iterator" /\ poll.iterator = NoIter /\ poll'.pc # "iterator"

\* the requests the claim expects of an instance that knows checkpoint
Expected(checkpoint) ==
  IF checkpoint = NoSeq
    THEN << Params(options.initialPositionInStream, NoSeq) >>
  ELSE IF ValidSequenceNumber(checkpoint)
    THEN << Params("AFTER_SEQUENCE_NUMBER", checkpoint) >>
  ELSE << Params("AFTER_SEQUENCE_NUMBER", checkpoint),
          Params(options.initialPositionInStream, NoSeq) >>

\* an acquisition sends the requests expected for checkpoint and goes on to
\* the fetch, or another error ends it after some of them and is pushed
AcquiresFrom(checkpoint) ==
  \/ /\ poll'.pc = "fetch"
     /\ poll'.requests = Expected(checkpoint)
  \/ /\ poll'.pc = "failed" /\ pushed'.errored
     /\ \E n \in 1 .. Len(Expected(checkpoint)) :
          poll'.requests = SubSeq(Expected(checkpoint), 1, n)

\* the acquisitions follow the checkpoint pollForRecords read when it was
\* entered
AcquisitionFollowsCheckpointAtEntry == [][AcquireStep => AcquiresFrom(poll.local)]_vars

\* C34: with no iterator held and a checkpoint known, the instance requests
\* an AFTER_SEQUENCE_NUMBER iterator at that checkpoint, and when the service
\* rejects the checkpoint exactly one more of type initialPositionInStream
\* without it; with no checkpoint it requests the initialPositionInStream
\* type; any other error is thrown to the catch of pollForRecords.
C34_IteratorAcquisition == [][AcquireStep => AcquiresFrom(poll.checkpoint)]_vars

\* ------------------------------------------------------------------------
\* The runs of pollForRecords, checked under SpecRuns
\* ------------------------------------------------------------------------

\* a run of pollForRecords that was called and has not returned, or a
\* timeout that will call it
InProgressOrScheduled(pc) == pc \notin {"stopped", "start", "paused", "failed"}

\* the runs of the instance in progress or scheduled
Runs ==
  (IF InProgressOrScheduled(poll.pc) THEN 1 ELSE 0)
    + (IF InProgressOrScheduled(poll.other.pc) THEN 1 ELSE 0)

\* C35: at most one run of pollForRecords of an instance is in progress or
\* scheduled at any time, whatever the sequence of start(), timeouts,
\* re-polls after an ExpiredIteratorException and continuePolling() calls,
\* more than one for a batch included.
C35_AtMostOneRun == Runs <= 1

\* ------------------------------------------------------------------------
\* The end of a closed shard, checked under SpecDeplete
\* ------------------------------------------------------------------------

\* the instance walks through the records of the shard once more
ReadsAgain == poll.pc = "fetch" /\ poll.it = 0 /\ pushed.delivered # {}

\* C36: the polling consumer of a closed shard whose lease stays held, with
\* no call failing, eventually calls markShardAsDepleted for the shard,
\* whatever useAutoCheckpoints and initialPositionInStream are and also when
\* the last getRecords answer has records and no next iterator.
C36_ClosedShardIsEventuallyMarked == <>(poll.pc \in Marking)

\* the same with useAutoCheckpoints on
AutoCheckpointsReachTheEnd == options.useAutoCheckpoints => <>(poll.pc \in Marking)

\* ------------------------------------------------------------------------
\* Every shard finds a consumer, checked under SpecCover
\* ------------------------------------------------------------------------

\* the lease of s is owned by a consumer
Leased(s) == s \in DOMAIN doc.shards /\ doc.shards[s].leaseOwner # NoOwner

\* s is listed and can be leased: it is not depleted, and it has no listed
\* parent or a depleted one
Awaited(s) ==
  /\ s \in listing
  /\ s \in DOMAIN doc.shards =>
       /\ ~doc.shards[s].depleted
       /\ ~parentNotDepleted(doc, doc.shards[s])

\* every record of a leased shard is the record of a listed shard
OnlyListedLeases == \A s \in DOMAIN doc.shards : Leased(s) => s \in listing

\* C37: with a fixed set of live consumers in auto-assignment mode that
\* keep ticking and an existing stream, every shard that is not depleted and
\* is a root or has a depleted parent is eventually leased by some consumer:
\* the cap never leaves such a shard without a lease for ever.
C37_EveryShardIsEventuallyLeased ==
  \A s \in ShardIds : [](Awaited(s) => <>Leased(s))

\* the same when every lease is the lease of a listed shard
ListedLeasesAreCovered ==
  OnlyListedLeases => \A s \in ShardIds : [](Awaited(s) => <>Leased(s))

\* ------------------------------------------------------------------------
\* More claims checked under SpecStore
\* ------------------------------------------------------------------------

\* the write of c's clearOldConsumers removes the record of id
RemovedBy(c, id) ==
  /\ ClearWriteStep(c)
  /\ id \in DOMAIN doc.consumers
  /\ id \notin DOMAIN doc'.consumers

\* C38: clearOldConsumers removes no record whose heartbeat, when the
\* removing write is applied, is within failureTimeout: a heartbeat that
\* registerConsumer refreshed between the read and the conditional update
\* of clearOldConsumers keeps the record of that consumer.
C38_RefreshedConsumerIsKept ==
  [][\A c \in Consumers : \A id \in Consumers :
       RemovedBy(c, id) => now - doc.consumers[id].heartbeat > HeartbeatTimeout]_vars

\* ------------------------------------------------------------------------
\* The writes of a polling consumer and the lease, checked under SpecStolen
\* ------------------------------------------------------------------------

\* a step of the polling consumer of c1 that writes to the item
PollWrite == poll' # poll /\ doc' # doc

\* C39: the stored checkpoint of a shard is written only by the consumer
\* that owns the lease of the shard when the write is applied: a polling
\* consumer whose lease another consumer took changes neither the checkpoint
\* nor the version of the shard's record afterwards.
C39_OnlyTheLeaseOwnerWritesTheCheckpoint ==
  [][(PollWrite /\ Persisted' # Persisted)
       => Persisted.leaseOwner = PollConsumer]_vars

\* ------------------------------------------------------------------------
\* The renewals of a consumer that polls, checked under SpecRenew
\* ------------------------------------------------------------------------

\* C40: a lockShardLease of the lease manager returns false only if a
\* different consumer changed the record of the shard between the read and
\* the conditional update of the manager; the checkpoints its own polling
\* consumer stores never make its lock or renewal fail. Under SpecRenew no
\* other consumer writes, so no lockShardLease of c1 returns false.
C40_OwnCheckpointsNeverFailTheLock == [][~LockFails(PollConsumer)]_vars

====
